---------------------------- MODULE Spec2Model ----------------------------
(***************************************************************************)
(* Model of the SF1+ synthetic data generators                             *)
(* (src/snowpark/sf1plus_crm_generator.py and the TF1 viewing-log          *)
(* generators).  The warehouse is a set of tables; a run is a sequence of  *)
(* SQL statements, each statement one atomic step that may also fail with  *)
(* an execution error.  RANDOM() draws are nondeterministic choices taken  *)
(* from small sample sets.                                                 *)
(*                                                                         *)
(* Text values are sequences of tokens: a customer_id and a phone are      *)
(* sequences of one-character strings, an email or a name is a sequence of *)
(* word tokens ("jean", ".", "martin", "@", "gmail.com").                  *)
(***************************************************************************)
EXTENDS Integers, Sequences, FiniteSets, TLC

VARIABLES
    dbExists,       \* SF1PLUS_DB exists
    schemaExists,   \* SF1PLUS_DB.RAW_DATA exists
    crmTable,       \* SF1PLUS_DB.RAW_DATA.SF1PLUS_CRM: [exists, rows]
    sourceTable,    \* CROCEVIA_DB.RAW_DATA.CROCEVIA_CRM (external, read-only)
    pc,             \* position of the current run
    target_rows,    \* parameter of the current run
    overwrite,      \* parameter of the current run
    params,         \* the counts the current run computed (lines 45-57)
    tmp_source,     \* TEMP_SF1_SOURCE_<suffix> of the current run
    tmp_base,       \* TEMP_SF1_BASE_<suffix> of the current run
    tmp_final,      \* TEMP_SF1_FINAL_<suffix> of the current run
    err,            \* error raised by the current run, "none" if none
    walk,           \* SpecAlloc: the row id reached and the categories counted
    runs,           \* runs started so far
    requested,      \* rows requested by the runs started so far
    hvTable,        \* SF1PLUS_DB.RAW_DATA.TF1_VIEWING_LOGS_HIGH_VOLUME
    temp_customer_map,  \* SF1PLUS_DB.RAW_DATA.TEMP_CUSTOMER_MAP_HV
    hv,             \* the High-Volume runs: one record per session
    logTable,       \* SF1PLUS_DB.RAW_DATA.TF1_VIEWING_LOGS: [exists, rows, null_ids]
    logs,           \* the run of the calendar-weighted synthesizer
    simple_customer_map,  \* SF1PLUS_DB.RAW_DATA.TEMP_CUSTOMER_MAP
    simple          \* the run of the simplified weekly generator

vars == <<dbExists, schemaExists, crmTable, sourceTable, pc, target_rows,
          overwrite, params, tmp_source, tmp_base, tmp_final, err, walk, runs, requested,
          hvTable, temp_customer_map, hv, logTable, logs,
          simple_customer_map, simple>>

\* the state of the event synthesizers
eventVars == <<hvTable, temp_customer_map, hv, logTable, logs,
               simple_customer_map, simple>>

\* the state of the simplified weekly generator; its output table is
\* TF1_VIEWING_LOGS, the table of the calendar-weighted synthesizer
simpleVars == <<simple_customer_map, simple>>

\* the state of the calendar-weighted synthesizer
logVars == <<logTable, logs>>

\* the state of a Customer Synthesizer run
crmRunVars == <<sourceTable, pc, target_rows, overwrite, params, tmp_source,
                tmp_base, tmp_final, err, walk>>

---------------------------------------------------------------------------
(* Bounds of the model *)

MaxTargetRows == 6     \* Spec: the largest target_rows of a run
MaxRuns == 2           \* Spec: runs of a behaviour
MaxSessionRows == 6    \* Spec: rows requested by all the runs of a behaviour
MaxNulled == 1         \* missingness draws that come out true in one base build
WideRows == 16         \* SpecWide: target_rows of the single run
PairRows == 6          \* SpecPair: target_rows of both runs
MaxHvEvents == 101     \* SpecHv: the largest total_events of a run
MaxHvSessionEvents == 103  \* SpecHv: events requested by all the runs of a behaviour
PairEvents == 2        \* SpecHvPair: total_events of every run
MaxMultiplier == 40     \* SpecSlots: the largest sample_multiplier of the range tried
MaxTimedEvents == 60   \* SpecHvTimes: the event ids and the small total_events examined
MaxAllocRows == 20000  \* SpecAlloc: the largest target_rows
MaxWalkRows == 100     \* SpecAlloc: the largest target_rows whose rows are walked

\* the negative target_rows tried
NegativeRows == {-5, -1}

---------------------------------------------------------------------------
(* SQL values *)

NULL == <<"<null>">>

IsNull(v) == v = NULL

\* a || b
Concat(a, b) == IF IsNull(a) \/ IsNull(b) THEN NULL ELSE a \o b

\* COALESCE(a, b)
Coalesce(a, b) == IF IsNull(a) THEN b ELSE a

DigitChars == <<"0", "1", "2", "3", "4", "5", "6", "7", "8", "9">>

RECURSIVE ToStr(_)
\* n::STRING for n >= 0, one character per element
ToStr(n) == IF n < 10 THEN <<DigitChars[n + 1]>>
            ELSE ToStr(n \div 10) \o <<DigitChars[(n % 10) + 1]>>

RECURSIVE Repeat(_, _)
Repeat(c, k) == IF k <= 0 THEN <<>> ELSE <<c>> \o Repeat(c, k - 1)

\* LPAD(s, len, pad): pads on the left, truncates a longer string to len
LPAD(s, len, pad) == IF Len(s) >= len THEN SubSeq(s, 1, len)
                     ELSE Repeat(pad, len - Len(s)) \o s

NoTable == [exists |-> FALSE, rows |-> <<>>]

TableOf(rws) == [exists |-> TRUE, rows |-> rws]

RECURSIVE SelectIdx(_, _, _)
\* the elements of s whose index is in keep, in order
SelectIdx(s, keep, i) ==
    IF i > Len(s) THEN <<>>
    ELSE (IF i \in keep THEN <<s[i]>> ELSE <<>>) \o SelectIdx(s, keep, i + 1)

RECURSIVE SubsetsUpTo(_, _)
\* the subsets of S with at most k elements
SubsetsUpTo(S, k) ==
    IF k <= 0 THEN {{}}
    ELSE LET P == SubsetsUpTo(S, k - 1)
         IN  P \cup {p \cup {x} : p \in P, x \in S}

SubsetsOfSize(S, k) == {p \in SubsetsUpTo(S, k) : Cardinality(p) = k}

---------------------------------------------------------------------------
(* Run parameters (sf1plus_crm_generator.py, lines 45-57) *)

\* int(round(num / den)) for den > 0: Python rounds halves to the even integer.
\* Python computes target_rows * 0.90 and overlap * 8 / 25 in binary floating
\* point; for -2000 <= target_rows <= 200000 the results equal the exact
\* half-even rounding of 9n/10, n/4, 8x/25 and 10x/25.
Round(num, den) ==
    LET q == num \div den
        r == num % den
    IN  IF 2 * r > den \/ (2 * r = den /\ q % 2 = 1) THEN q + 1 ELSE q

\* mutation: the 90% and 10% shares swapped
base_count_swapped(n) == Round(n, 10)

base_count(n) == Round(9 * n, 10)

dup_count(n) == n - base_count(n)

overlap_total_target(n) == Round(n, 4)

triple_share == 8
email_share == 10
phone_share == 7
sum_share == triple_share + email_share + phone_share

triple_count(n) == Round(overlap_total_target(n) * triple_share, sum_share)

email_extra_count(n) == Round(overlap_total_target(n) * email_share, sum_share)

\* mutation: the phone count rounded from its share like the other two
phone_count_by_share(n) == Round(overlap_total_target(n) * phone_share, sum_share)

phone_extra_count(n) ==
    overlap_total_target(n) - triple_count(n) - email_extra_count(n)

\* the local variables of run() after line 57
Params(n) ==
    [base_count |-> base_count(n), dup_count |-> dup_count(n),
     overlap_total_target |-> overlap_total_target(n),
     triple_count |-> triple_count(n),
     email_extra_count |-> email_extra_count(n),
     phone_extra_count |-> phone_extra_count(n)]

NoParams == Params(0)

---------------------------------------------------------------------------
(* Reference population CROCEVIA_CRM: sample rows of the external table *)

RefRowList == <<
    [EMAIL |-> <<"a", "@", "x.fr">>, PHONE |-> <<"0", "6", "1">>,
     FIRST_NAME |-> <<"Anna">>, LAST_NAME |-> <<"Blanc">>],
    [EMAIL |-> <<"b", "@", "y.fr">>, PHONE |-> NULL,
     FIRST_NAME |-> NULL, LAST_NAME |-> <<"Colin">>],
    [EMAIL |-> NULL, PHONE |-> <<"0", "7", "2">>,
     FIRST_NAME |-> <<"Denis">>, LAST_NAME |-> NULL],
    [EMAIL |-> NULL, PHONE |-> NULL,
     FIRST_NAME |-> <<"Eve">>, LAST_NAME |-> <<"Faure">>] >>

\* the populations tried: empty, null in both fields, one complete row, two
\* rows each lacking one field, a complete row beside a row null in both
RefPopulations ==
    { <<>>,
      <<RefRowList[4]>>,
      <<RefRowList[1]>>,
      <<RefRowList[2], RefRowList[3]>>,
      <<RefRowList[1], RefRowList[4]>> }

---------------------------------------------------------------------------
(* Samples of the RANDOM() draws *)

\* UNIFORM(10, 99, RANDOM()) four times, for the generated phone of a row
PhoneGroupDraws == { <<10, 99, 23, 40>> }

\* UNIFORM(0, 3650, RANDOM()), for date_joined
DaysDraws == { 365 }

\* CAST(UNIFORM(0,9,RANDOM()) AS STRING), for the mutations of a duplicate
MutDigits == { "7" }

\* One draw per base row: g the phone groups, days the date offset, uEmail and
\* uPhone whether UNIFORM(0,1,RANDOM()) < 0.15 resp. < 0.20 came out true.
\* The family keeps the builds in which at most MaxNulled of the missingness
\* draws come out true.
BaseDraws(p) ==
    LET rws == 1..p.base_count
        D   == ({"e"} \X rws) \cup ({"p"} \X rws)
    IN  { [i \in rws |-> [g |-> g, days |-> d,
                          uEmail |-> <<"e", i>> \in fired,
                          uPhone |-> <<"p", i>> \in fired]] :
            g \in PhoneGroupDraws, d \in DaysDraws,
            fired \in SubsetsUpTo(D, MaxNulled) }

\* One draw per duplicate: whether UNIFORM(0,1,RANDOM()) < 0.5 came out true
\* for the email and for the phone, and the two digits drawn
MutDraws == [mEmail : BOOLEAN, dEmail : MutDigits,
             mPhone : BOOLEAN, dPhone : MutDigits]

---------------------------------------------------------------------------
(* CREATE TEMPORARY TABLE tmp_source (lines 66-79) *)

\* rn is the random numbering ROW_NUMBER() OVER (ORDER BY RANDOM()) of the
\* rows that pass the WHERE clause
SourceKept(src) ==
    SelectSeq(src, LAMBDA r : ~IsNull(r.EMAIL) \/ ~IsNull(r.PHONE))

SourceSample(src, rn) ==
    LET kept == SourceKept(src)
    IN  [i \in 1..Len(kept) |->
            [SRC_EMAIL |-> kept[i].EMAIL, SRC_PHONE |-> kept[i].PHONE,
             SRC_FIRST_NAME |-> kept[i].FIRST_NAME,
             SRC_LAST_NAME |-> kept[i].LAST_NAME,
             SRC_RN |-> rn[i]]]

---------------------------------------------------------------------------
(* CREATE TEMPORARY TABLE tmp_base (lines 82-196) *)

FirstNames == <<"Jean", "Marie", "Pierre", "Sophie", "Michel", "Catherine",
                "Philippe", "Nathalie", "Alain", "Isabelle", "Francois",
                "Sylvie", "Bernard", "Martine", "Patrick", "Christine",
                "Daniel", "Francoise", "Thierry", "Monique">>

LastNames == <<"Martin", "Bernard", "Dubois", "Thomas", "Robert", "Petit",
               "Richard", "Durand", "Leroy", "Moreau", "Simon", "Laurent",
               "Lefebvre", "Michel", "Garcia", "David", "Bertrand", "Roux",
               "Vincent", "Fournier", "Morel", "Girard", "Andre", "Lefevre",
               "Mercier">>

LowerFirstNames == <<"jean", "marie", "pierre", "sophie", "michel",
                     "catherine", "philippe", "nathalie", "alain", "isabelle",
                     "francois", "sylvie", "bernard", "martine", "patrick",
                     "christine", "daniel", "francoise", "thierry", "monique">>

LowerLastNames == <<"martin", "bernard", "dubois", "thomas", "robert", "petit",
                    "richard", "durand", "leroy", "moreau", "simon", "laurent",
                    "lefebvre", "michel", "garcia", "david", "bertrand", "roux",
                    "vincent", "fournier", "morel", "girard", "andre",
                    "lefevre", "mercier">>

\* LOWER(s) of a one-token generated name
Lower(s) ==
    LET t == s[1]
    IN  IF \E i \in 1..Len(FirstNames) : FirstNames[i] = t
        THEN <<LowerFirstNames[CHOOSE i \in 1..Len(FirstNames) : FirstNames[i] = t]>>
        ELSE IF \E i \in 1..Len(LastNames) : LastNames[i] = t
        THEN <<LowerLastNames[CHOOSE i \in 1..Len(LastNames) : LastNames[i] = t]>>
        ELSE s

Domains == <<"gmail.com", "orange.fr", "free.fr", "wanadoo.fr", "sfr.fr",
             "laposte.net">>

Professions == <<"Engineer", "Teacher", "Student", "Nurse", "Sales", "Artist",
                 "Manager", "Consultant">>

Levels == <<"FREE", "BASIC", "STANDARD", "PREMIUM">>

\* mutation: the CASE without its ELSE 'NONE' branch
overlap_type_no_else(row_id, p) ==
    IF row_id <= p.triple_count THEN "TRIPLE"
    ELSE IF row_id <= p.triple_count + p.email_extra_count THEN "EMAIL"
    ELSE "PHONE"

\* mutation: the thresholds compared with < instead of <=
overlap_type_strict(row_id, p) ==
    IF row_id < p.triple_count THEN "TRIPLE"
    ELSE IF row_id < p.triple_count + p.email_extra_count THEN "EMAIL"
    ELSE IF row_id < p.triple_count + p.email_extra_count + p.phone_extra_count
    THEN "PHONE"
    ELSE "NONE"

\* the CASE of the assigned CTE (lines 103-108) over the thresholds (91-96)
overlap_type(row_id, p) ==
    LET t_triple == p.triple_count
        t_email  == p.triple_count + p.email_extra_count
        t_phone  == p.triple_count + p.email_extra_count + p.phone_extra_count
    IN  IF row_id <= t_triple THEN "TRIPLE"
        ELSE IF row_id <= t_email THEN "EMAIL"
        ELSE IF row_id <= t_phone THEN "PHONE"
        ELSE "NONE"

gen_first_name(row_id) == <<FirstNames[(row_id % 20) + 1]>>

gen_last_name(row_id) == <<LastNames[(row_id % 25) + 1]>>

\* mutation: the join key without the modulo
src_k_no_cycle(row_id, src) == {row_id}

\* (row_id % NULLIF(MAX(SRC_RN), 0)) + 1, as the set of its non-null values:
\* MAX over an empty sample is NULL and so is the key
src_k(row_id, src) ==
    LET rns == {src[i].SRC_RN : i \in 1..Len(src)}
    IN  IF rns = {} THEN {}
        ELSE LET m == CHOOSE x \in rns : \A y \in rns : y <= x
             IN  IF m = 0 THEN {} ELSE {(row_id % m) + 1}

NoSource == [SRC_EMAIL |-> NULL, SRC_PHONE |-> NULL,
             SRC_FIRST_NAME |-> NULL, SRC_LAST_NAME |-> NULL]

\* the rows of "assigned LEFT JOIN tmp_source ON SRC_RN = src_k" for one base
\* row: one per matching sample row, or one with null SRC_ columns
Joined(row_id, src) ==
    LET k     == src_k(row_id, src)
        match == SelectSeq(src, LAMBDA s : s.SRC_RN \in k)
    IN  IF match = <<>> THEN <<NoSource>> ELSE match

customer_id(row_id) == <<"S", "F", "1", "-">> \o LPAD(ToStr(row_id), 10, "0")

\* the enriched and with_missing CTEs for one joined row
BaseRow(row_id, p, s, draw) ==
    LET ot == overlap_type(row_id, p)
        gf == gen_first_name(row_id)
        gl == gen_last_name(row_id)
        email_raw ==
            IF ot \in {"TRIPLE", "EMAIL"} THEN s.SRC_EMAIL
            ELSE Concat(Concat(Concat(Concat(Lower(gf), <<".">>), Lower(gl)),
                               <<"@">>), <<Domains[(row_id % 6) + 1]>>)
        phone_raw ==
            IF ot \in {"TRIPLE", "PHONE"} THEN s.SRC_PHONE
            ELSE <<"0">> \o ToStr(1 + (row_id % 6)) \o <<" ">>
                 \o LPAD(ToStr(draw.g[1]), 2, "0") \o <<" ">>
                 \o LPAD(ToStr(draw.g[2]), 2, "0") \o <<" ">>
                 \o LPAD(ToStr(draw.g[3]), 2, "0") \o <<" ">>
                 \o LPAD(ToStr(draw.g[4]), 2, "0")
    IN  [customer_id |-> customer_id(row_id),
         first_name |-> IF ot = "TRIPLE" THEN Coalesce(s.SRC_FIRST_NAME, gf) ELSE gf,
         last_name |-> IF ot = "TRIPLE" THEN Coalesce(s.SRC_LAST_NAME, gl) ELSE gl,
         email |-> IF ot \in {"TRIPLE", "EMAIL"} THEN email_raw
                   ELSE IF draw.uEmail THEN NULL ELSE email_raw,
         phone |-> IF ot \in {"TRIPLE", "PHONE"} THEN phone_raw
                   ELSE IF draw.uPhone THEN NULL ELSE phone_raw,
         gender |-> IF row_id % 2 = 0 THEN "Male" ELSE "Female",
         profession |-> Professions[(row_id % 8) + 1],
         date_joined |-> 0 - draw.days,
         subscription_level |-> Levels[(row_id % 4) + 1],
         overlap_type |-> ot]

RECURSIVE BaseFrom(_, _, _, _)
\* the rows of tmp_base for the generated row ids row_id..base_count
BaseFrom(row_id, p, src, draws) ==
    IF row_id > p.base_count THEN <<>>
    ELSE LET j == Joined(row_id, src)
         IN  [i \in 1..Len(j) |-> BaseRow(row_id, p, j[i], draws[row_id])]
             \o BaseFrom(row_id + 1, p, src, draws)

\* GENERATOR(ROWCOUNT => base_count) numbered 1..base_count
BuildBase(p, src, draws) == BaseFrom(1, p, src, draws)

---------------------------------------------------------------------------
(* CREATE TEMPORARY TABLE tmp_final (lines 199-227) *)

RECURSIVE RegexpReplaceAt(_, _)
\* REGEXP_REPLACE(email, '@', d || '@'): every '@' gets the digit before it
RegexpReplaceAt(email, d) ==
    IF email = <<>> THEN <<>>
    ELSE (IF Head(email) = "@" THEN <<d, "@">> ELSE <<Head(email)>>)
         \o RegexpReplaceAt(Tail(email), d)

\* mutation: the digit appended to the whole phone
ReplaceLastKept(phone, d) == phone \o <<d>>

\* SUBSTR(phone, 1, LENGTH(phone)-1) || d
ReplaceLast(phone, d) == SubSeq(phone, 1, Len(phone) - 1) \o <<d>>

\* mutation: the duplicate keeps the customer_id of its origin
DupSuffixEmpty == <<>>

DupSuffix == <<"_", "D", "U", "P">>

DupRow(r, m) ==
    [customer_id |-> Concat(r.customer_id, DupSuffix),
     email |-> IF m.mEmail /\ ~IsNull(r.email)
               THEN RegexpReplaceAt(r.email, m.dEmail) ELSE r.email,
     phone |-> IF m.mPhone /\ ~IsNull(r.phone)
               THEN ReplaceLast(r.phone, m.dPhone) ELSE r.phone,
     first_name |-> r.first_name, last_name |-> r.last_name,
     gender |-> r.gender, profession |-> r.profession,
     date_joined |-> r.date_joined,
     subscription_level |-> r.subscription_level,
     overlap_type |-> "DUPLICATE"]

\* mutation: the dups CTE without its WHERE clause
AllRowsCandidates(base) == base

\* the rows the dups CTE reads: WHERE overlap_type = 'NONE'
DupCandidates(base) == SelectSeq(base, LAMBDA r : r.overlap_type = "NONE")

\* QUALIFY ROW_NUMBER() OVER (ORDER BY RANDOM()) <= dup_count: the possible
\* sets of positions (in the candidates) that the random numbering keeps
\* the number of rows with ROW_NUMBER() <= dup_count among c candidates
DupKept(c, p) == IF p.dup_count < 0 THEN 0
                 ELSE IF p.dup_count > c THEN c ELSE p.dup_count

DupPicks(base, p) ==
    LET c == Len(DupCandidates(base))
    IN  SubsetsOfSize(1..c, DupKept(c, p))

\* tmp_base UNION ALL dups
BuildFinal(base, pick, mut) ==
    LET cand   == DupCandidates(base)
        picked == SelectIdx(cand, pick, 1)
    IN  base \o [i \in 1..Len(picked) |-> DupRow(picked[i], mut[i])]


---------------------------------------------------------------------------
(* The sessions that run the High-Volume Synthesizer, and their idle state *)

Procs == {1, 2}

\* TEMP_CUSTOMER_MAP_HV does not exist; built_by is the session whose
\* statement created the table that exists
NoMap == [exists |-> FALSE, rows |-> <<>>, built_by |-> 0]

\* a session outside run(): read_map_of is the session that built the map the
\* last select read, before the output table as run() found it, batch the
\* rows the last select produced
NoHvRun == [pc |-> "idle", total_events |-> 0, attach_customer_pct |-> 0,
            overwrite |-> TRUE, err |-> "none", read_map_of |-> 0,
            before |-> NoTable, batch |-> <<>>]

\* TF1_VIEWING_LOGS does not exist; an existing table is kept as the number
\* of its rows and the number of them with a null customer_id
NoLogTable == [exists |-> FALSE, rows |-> 0, null_ids |-> 0]

\* outside run() of the calendar-weighted synthesizer.  From cust_pool on,
\* the fields are the evaluation of select_sql: the pool sampled, the random
\* draws (jitter, draws), the slot reached, its events_per_slot, and over the
\* slots done the sum of events_per_slot (targets), the rows output, the
\* rows output with a null customer_id, of an event with attach_flag = 1 and
\* of an event joined to no pool row, the customer_id values output, and the
\* events_per_slot values seen in the hours 21-22 and in the hours 00-05
NoLogsRun == [pc |-> "idle", sample_multiplier |-> 0, attach_customer_pct |-> 0,
              overwrite |-> TRUE, err |-> "none", cust_pool |-> <<>>,
              jitter |-> 0, draws |-> "zeros", slot_index |-> 0,
              events_per_slot |-> 0, targets |-> 0, rows |-> 0,
              null_rows |-> 0, flagged |-> 0, unmatched |-> 0, ids |-> {},
              peak_counts |-> {}, off_counts |-> {}]

LogsIdle ==
    /\ logTable = NoLogTable
    /\ logs = NoLogsRun

HvIdle ==
    /\ hvTable = NoTable
    /\ temp_customer_map = NoMap
    /\ hv = [p \in Procs |-> NoHvRun]

\* outside run() of the simplified weekly generator: map_rows is the number
\* of rows of the customer map the last select read, batch the rows it
\* produced
NoSimpleRun == [pc |-> "idle", sample_multiplier |-> 0,
                attach_customer_pct |-> 0, overwrite |-> TRUE, err |-> "none",
                made_map |-> FALSE, map_rows |-> 0, batch |-> <<>>]

SimpleIdle ==
    /\ simple_customer_map = NoTable
    /\ simple = NoSimpleRun

EventsIdle == HvIdle /\ LogsIdle /\ SimpleIdle

---------------------------------------------------------------------------
(* The run of the Customer Synthesizer: run(session, target_rows, overwrite) *)

NoWalk == [row_id |-> 0, overlap_type |-> "NONE", overlap_rows |-> 0,
           none_rows |-> 0, dup_rows |-> 0]

InitWith(populations) ==
    /\ dbExists = FALSE
    /\ schemaExists = FALSE
    /\ crmTable = NoTable
    /\ sourceTable \in populations
    /\ pc = "idle"
    /\ target_rows = 0
    /\ overwrite = TRUE
    /\ params = NoParams
    /\ tmp_source = NoTable
    /\ tmp_base = NoTable
    /\ tmp_final = NoTable
    /\ err = "none"
    /\ walk = NoWalk
    /\ runs = 0
    /\ requested = 0
    /\ EventsIdle

Init == InitWith(RefPopulations)

\* what a run counts against the rows a behaviour may request
Cost(n) == IF n > 0 THEN n ELSE 1

\* run() is entered; nothing in lines 30-39 checks the parameters
Enter(n, ow) ==
    /\ pc \in {"idle", "done", "failed"}
    /\ pc' = "create_db"
    /\ target_rows' = n
    /\ overwrite' = ow
    /\ params' = NoParams
    /\ tmp_source' = NoTable
    /\ tmp_base' = NoTable
    /\ tmp_final' = NoTable
    /\ err' = "none"
    /\ runs' = runs + 1
    /\ requested' = requested + Cost(n)
    /\ UNCHANGED <<dbExists, schemaExists, crmTable, sourceTable, walk>>
    /\ UNCHANGED eventVars

StartRun ==
    \E n \in NegativeRows \cup (0..MaxTargetRows), ow \in BOOLEAN :
        /\ runs < MaxRuns
        /\ requested + Cost(n) <= MaxSessionRows
        /\ Enter(n, ow)

\* CREATE DATABASE IF NOT EXISTS (line 41)
CreateDatabase ==
    /\ pc = "create_db"
    /\ dbExists' = TRUE
    /\ pc' = "create_schema"
    /\ UNCHANGED <<schemaExists, crmTable, sourceTable, target_rows, overwrite, params,
                   tmp_source, tmp_base, tmp_final, err, walk, runs, requested>>
    /\ UNCHANGED eventVars

\* CREATE SCHEMA IF NOT EXISTS (line 42); lines 45-63 compute the counts and
\* the names of the temporary tables
CreateSchema ==
    /\ pc = "create_schema"
    /\ schemaExists' = TRUE
    /\ params' = Params(target_rows)
    /\ pc' = "source"
    /\ UNCHANGED <<dbExists, crmTable, sourceTable, target_rows, overwrite,
                   tmp_source, tmp_base, tmp_final, err, walk, runs, requested>>
    /\ UNCHANGED eventVars

\* lines 66-79
CreateTmpSource ==
    /\ pc = "source"
    /\ \E rn \in Permutations(1..Len(SourceKept(sourceTable))) :
          tmp_source' = TableOf(SourceSample(sourceTable, rn))
    /\ pc' = "base"
    /\ UNCHANGED <<dbExists, schemaExists, crmTable, sourceTable, target_rows,
                   overwrite, params, tmp_base, tmp_final, err, walk, runs, requested>>
    /\ UNCHANGED eventVars

\* lines 82-196
CreateTmpBase ==
    /\ pc = "base"
    /\ \E draws \in BaseDraws(params) :
          tmp_base' = TableOf(BuildBase(params, tmp_source.rows, draws))
    /\ pc' = "final"
    /\ UNCHANGED <<dbExists, schemaExists, crmTable, sourceTable, target_rows,
                   overwrite, params, tmp_source, tmp_final, err, walk, runs, requested>>
    /\ UNCHANGED eventVars

\* lines 199-227
CreateTmpFinal ==
    /\ pc = "final"
    /\ \E pick \in DupPicks(tmp_base.rows, params) :
          \E mut \in [1..Cardinality(pick) -> MutDraws] :
             tmp_final' = TableOf(BuildFinal(tmp_base.rows, pick, mut))
    /\ pc' = "persist"
    /\ UNCHANGED <<dbExists, schemaExists, crmTable, sourceTable, target_rows,
                   overwrite, params, tmp_source, tmp_base, err, walk, runs, requested>>
    /\ UNCHANGED eventVars

\* CREATE OR REPLACE TABLE ... AS SELECT * FROM tmp_final (lines 231-232)
PersistReplace ==
    /\ pc = "persist"
    /\ overwrite
    /\ crmTable' = TableOf(tmp_final.rows)
    /\ pc' = "done"
    /\ UNCHANGED <<dbExists, schemaExists, sourceTable, target_rows, overwrite, params,
                   tmp_source, tmp_base, tmp_final, err, walk, runs, requested>>
    /\ UNCHANGED eventVars

\* CREATE TABLE IF NOT EXISTS ... WHERE 1=0 (line 234)
PersistCreateEmpty ==
    /\ pc = "persist"
    /\ ~overwrite
    /\ crmTable' = IF crmTable.exists THEN crmTable ELSE TableOf(<<>>)
    /\ pc' = "insert"
    /\ UNCHANGED <<dbExists, schemaExists, sourceTable, target_rows, overwrite, params,
                   tmp_source, tmp_base, tmp_final, err, walk, runs, requested>>
    /\ UNCHANGED eventVars

\* INSERT INTO ... SELECT * FROM tmp_final (line 235)
PersistInsert ==
    /\ pc = "insert"
    /\ crmTable' = TableOf(crmTable.rows \o tmp_final.rows)
    /\ pc' = "done"
    /\ UNCHANGED <<dbExists, schemaExists, sourceTable, target_rows, overwrite, params,
                   tmp_source, tmp_base, tmp_final, err, walk, runs, requested>>
    /\ UNCHANGED eventVars

\* session.sql(...).collect() raises: the store fails the statement (line 27).
\* The exception leaves run(); the names of its temporary tables go with it.
ExecFails ==
    /\ pc \in {"create_db", "create_schema", "source", "base", "final",
               "persist", "insert"}
    /\ pc' = "failed"
    /\ err' = "ExecutionError"
    /\ tmp_source' = NoTable
    /\ tmp_base' = NoTable
    /\ tmp_final' = NoTable
    /\ UNCHANGED <<dbExists, schemaExists, crmTable, sourceTable, target_rows,
                   overwrite, params, walk, runs, requested>>
    /\ UNCHANGED eventVars

Step ==
    \/ CreateDatabase
    \/ CreateSchema
    \/ CreateTmpSource
    \/ CreateTmpBase
    \/ CreateTmpFinal
    \/ PersistReplace
    \/ PersistCreateEmpty
    \/ PersistInsert
    \/ ExecFails

Next == StartRun \/ Step

Spec == Init /\ [][Next]_vars

---------------------------------------------------------------------------
(* One run with target_rows = WideRows, the smallest run with two duplicates *)

WidePopulations == { <<RefRowList[1], RefRowList[2]>> }

InitWide == InitWith(WidePopulations)

StartWideRun ==
    \E ow \in BOOLEAN :
        /\ runs = 0
        /\ Enter(WideRows, ow)

NextWide == StartWideRun \/ Step

SpecWide == InitWide /\ [][NextWide]_vars

---------------------------------------------------------------------------
(* Two overwrite runs with the same target_rows = PairRows, the smallest   *)
(* run with a TRIPLE row, over the same reference population               *)

PairPopulations == { <<RefRowList[2], RefRowList[3]>> }

InitPair == InitWith(PairPopulations)

StartPairRun ==
    /\ runs < MaxRuns
    /\ Enter(PairRows, TRUE)

\* both runs overwrite: the append statements are never reached
NextPair ==
    \/ StartPairRun
    \/ CreateDatabase
    \/ CreateSchema
    \/ CreateTmpSource
    \/ CreateTmpBase
    \/ CreateTmpFinal
    \/ PersistReplace
    \/ ExecFails

SpecPair == InitPair /\ [][NextPair]_vars

---------------------------------------------------------------------------
(* The counts of a run over a wide range of target_rows: the parameters    *)
(* (lines 45-57), the category of every generated row id (lines 86-108)    *)
(* and the number of rows the duplicate step keeps (lines 215-219)         *)

\* the default of target_rows (line 30)
DefaultRows == 4000000

\* target_rows of the example scenario
ExampleRows == {1000}

AllocRows == (1..MaxAllocRows) \cup ExampleRows \cup {DefaultRows}

WalkedRows == (1..MaxWalkRows) \cup ExampleRows

InitAlloc ==
    /\ dbExists = FALSE
    /\ schemaExists = FALSE
    /\ crmTable = NoTable
    /\ sourceTable = <<>>
    /\ pc = "alloc"
    /\ target_rows \in AllocRows
    /\ overwrite = TRUE
    /\ params = NoParams
    /\ tmp_source = NoTable
    /\ tmp_base = NoTable
    /\ tmp_final = NoTable
    /\ err = "none"
    /\ walk = NoWalk
    /\ runs = 0
    /\ requested = 0
    /\ EventsIdle

\* lines 45-57
ComputeParams ==
    /\ pc = "alloc"
    /\ params' = Params(target_rows)
    /\ pc' = "assign"
    /\ UNCHANGED <<dbExists, schemaExists, crmTable, sourceTable, target_rows,
                   overwrite, tmp_source, tmp_base, tmp_final, err, walk, runs,
                   requested>>
    /\ UNCHANGED eventVars

\* the assigned CTE for the next row of base_rows (lines 86-108)
AssignRow ==
    /\ pc = "assign"
    /\ target_rows \in WalkedRows
    /\ walk.row_id < params.base_count
    /\ LET i  == walk.row_id + 1
           ot == overlap_type(i, params)
       IN  walk' = [walk EXCEPT
                      !.row_id = i,
                      !.overlap_type = ot,
                      !.overlap_rows = @ + (IF ot = "NONE" THEN 0 ELSE 1),
                      !.none_rows = @ + (IF ot = "NONE" THEN 1 ELSE 0)]
    /\ UNCHANGED <<dbExists, schemaExists, crmTable, sourceTable, pc,
                   target_rows, overwrite, params, tmp_source, tmp_base,
                   tmp_final, err, runs, requested>>
    /\ UNCHANGED eventVars

\* the dups CTE keeps the NONE rows numbered up to dup_count (lines 215-219)
KeepDuplicates ==
    /\ pc = "assign"
    /\ target_rows \in WalkedRows
    /\ walk.row_id >= params.base_count
    /\ walk' = [walk EXCEPT !.dup_rows = DupKept(walk.none_rows, params)]
    /\ pc' = "kept"
    /\ UNCHANGED <<dbExists, schemaExists, crmTable, sourceTable, target_rows,
                   overwrite, params, tmp_source, tmp_base, tmp_final, err,
                   runs, requested>>
    /\ UNCHANGED eventVars

NextAlloc == ComputeParams \/ AssignRow \/ KeepDuplicates

SpecAlloc == InitAlloc /\ [][NextAlloc]_vars

---------------------------------------------------------------------------
(* High-Volume Synthesizer (tf1_viewing_logs_generator_high_volume.py):    *)
(* run(session, total_events, attach_customer_pct, overwrite)              *)

\* the default of total_events (line 24)
DefaultEvents == 5000000

\* attach_customer_pct in thousandths: 305 stands for 0.305
HvAttachPcts == {-200, 0, 300, 305, 1000, 1500}

\* max(0.0, min(1.0, float(attach_customer_pct))) (line 40), in thousandths
attach_pct(a) == IF a < 0 THEN 0 ELSE IF a > 1000 THEN 1000 ELSE a

\* the customer table with two records, as a Customer Synthesizer run with
\* target_rows = 2 leaves it
HvCustomers ==
    BuildBase(Params(2), <<>>,
              [i \in 1..2 |-> [g |-> <<10, 99, 23, 40>>, days |-> 365,
                               uEmail |-> FALSE, uPhone |-> FALSE]])

\* the customer tables tried: absent, empty, two records
HvCustomerTables == {NoTable, TableOf(<<>>), TableOf(HvCustomers)}

\* SELECT customer_id, ROW_NUMBER() OVER (ORDER BY RANDOM()) AS rn FROM
\* SF1PLUS_CRM SAMPLE (50) (lines 46-48): keep is the set of positions the
\* sample kept, rn the random numbering of the kept rows
HvMapRows(rws, keep, rn) ==
    LET kept == SelectIdx(rws, keep, 1)
    IN  [i \in 1..Len(kept) |-> [customer_id |-> kept[i].customer_id, rn |-> rn[i]]]

\* the base_events CTE (lines 57-60): seconds from the start of the current
\* week, DATE_TRUNC('WEEK', CURRENT_DATE())
event_time(event_id) == (event_id - 1) * 2 - 21 * 86400

\* DATE_TRUNC('hour', t), t in seconds from the start of the current week
DateTruncHour(t) == t - (t % 3600)

\* 'TF1-' || TO_CHAR(event_time, 'YYYYMMDD-HH24') (line 87): the prefix and
\* the number of the hour, counted from the start of the current week
HvProgrammeId(t) == <<"TF1-", t \div 3600>>

\* mutation: the gate compared with <= instead of <
HvGateInclusive(event_id, a) == (event_id % 100) * 10 <= attach_pct(a)

\* (event_id % 100) < (attach_pct * 100) (line 74), both sides times ten
HvGate(event_id, a) == (event_id % 100) * 10 < attach_pct(a)

\* mutation: the customer map joined without a condition
HvJoinAll(event_id, map) ==
    IF map = <<>> THEN <<[customer_id |-> NULL]>> ELSE map

\* base_events CROSS JOIN customer_count LEFT JOIN customer_map c
\* ON c.rn = (event_id % total_customers) + 1 (lines 77-79), for one event:
\* the matching rows of the map, or one row with a null customer.  With an
\* empty map the key is event_id % 0: the statement either fails (HvExecFails)
\* or evaluates the key to NULL, which matches nothing.
HvJoin(event_id, map) ==
    LET total_customers == Len(map)
        match == IF total_customers = 0 THEN <<>>
                 ELSE SelectSeq(map, LAMBDA c :
                                  c.rn = (event_id % total_customers) + 1)
    IN  IF match = <<>> THEN <<[customer_id |-> NULL]>> ELSE match

\* the rows of events_enriched for one event (lines 69-80); the final CTE
\* keeps event_time and customer_id, derives slot_start_time and programme_id
\* from event_time (lines 86-87) and the other columns from event_id, which
\* stands here for them
HvEventRows(event_id, a, map) ==
    LET j == HvJoin(event_id, map)
    IN  [i \in 1..Len(j) |->
            [event_id |-> event_id, event_time |-> event_time(event_id),
             slot_start_time |-> DateTruncHour(event_time(event_id)),
             programme_id |-> HvProgrammeId(event_time(event_id)),
             customer_id |-> IF HvGate(event_id, a) THEN j[i].customer_id
                             ELSE NULL]]

RECURSIVE HvSelectFrom(_, _, _, _)
HvSelectFrom(event_id, n, a, map) ==
    IF event_id > n THEN <<>>
    ELSE HvEventRows(event_id, a, map) \o HvSelectFrom(event_id + 1, n, a, map)

\* select_sql (lines 52-167) over GENERATOR(ROWCOUNT => total_events)
HvSelect(n, a, map) == HvSelectFrom(1, n, a, map)

\* run() is entered by session p; nothing in lines 22-35 checks the parameters
HvEnter(p, n, a, ow) ==
    /\ hv[p].pc \in {"idle", "done", "failed"}
    /\ hv' = [hv EXCEPT ![p] =
                [pc |-> "create_db", total_events |-> n,
                 attach_customer_pct |-> a, overwrite |-> ow, err |-> "none",
                 read_map_of |-> 0, before |-> hvTable, batch |-> <<>>]]
    /\ runs' = runs + 1
    /\ requested' = requested + Cost(n)
    /\ UNCHANGED <<dbExists, schemaExists, crmTable, hvTable, temp_customer_map>>
    /\ UNCHANGED crmRunVars
    /\ UNCHANGED logVars
    /\ UNCHANGED simpleVars

\* CREATE DATABASE IF NOT EXISTS (line 36)
HvCreateDatabase(p) ==
    /\ hv[p].pc = "create_db"
    /\ dbExists' = TRUE
    /\ hv' = [hv EXCEPT ![p].pc = "create_schema"]
    /\ UNCHANGED <<schemaExists, crmTable, hvTable, temp_customer_map, runs, requested>>
    /\ UNCHANGED crmRunVars
    /\ UNCHANGED logVars
    /\ UNCHANGED simpleVars

\* CREATE SCHEMA IF NOT EXISTS (line 37)
HvCreateSchema(p) ==
    /\ hv[p].pc = "create_schema"
    /\ schemaExists' = TRUE
    /\ hv' = [hv EXCEPT ![p].pc = "map"]
    /\ UNCHANGED <<dbExists, crmTable, hvTable, temp_customer_map, runs, requested>>
    /\ UNCHANGED crmRunVars
    /\ UNCHANGED logVars
    /\ UNCHANGED simpleVars

\* CREATE OR REPLACE TABLE TEMP_CUSTOMER_MAP_HV AS ... (lines 43-49): the name
\* is the same for every run; the statement needs the customer table
HvCreateCustomerMap(p) ==
    /\ hv[p].pc = "map"
    /\ crmTable.exists
    /\ \E keep \in SUBSET (1..Len(crmTable.rows)) :
          \E rn \in Permutations(1..Cardinality(keep)) :
             temp_customer_map' =
                 [exists |-> TRUE, rows |-> HvMapRows(crmTable.rows, keep, rn),
                  built_by |-> p]
    /\ hv' = [hv EXCEPT ![p].pc = "persist"]
    /\ UNCHANGED <<dbExists, schemaExists, crmTable, hvTable, runs, requested>>
    /\ UNCHANGED crmRunVars
    /\ UNCHANGED logVars
    /\ UNCHANGED simpleVars

\* CREATE OR REPLACE TABLE ... AS select_sql (line 170); select_sql reads the
\* table that carries the name TEMP_CUSTOMER_MAP_HV when the statement runs
HvPersistReplace(p) ==
    /\ hv[p].pc = "persist"
    /\ hv[p].overwrite
    /\ temp_customer_map.exists
    /\ LET rws == HvSelect(hv[p].total_events, hv[p].attach_customer_pct,
                           temp_customer_map.rows)
       IN  /\ hvTable' = TableOf(rws)
           /\ hv' = [hv EXCEPT ![p].pc = "drop", ![p].batch = rws,
                               ![p].read_map_of = temp_customer_map.built_by]
    /\ UNCHANGED <<dbExists, schemaExists, crmTable, temp_customer_map, runs, requested>>
    /\ UNCHANGED crmRunVars
    /\ UNCHANGED logVars
    /\ UNCHANGED simpleVars

\* mutation: CREATE OR REPLACE TABLE ... WHERE 1=0 in append mode
HvPersistCreateReplaced(p) ==
    /\ hv[p].pc = "persist"
    /\ ~hv[p].overwrite
    /\ temp_customer_map.exists
    /\ hvTable' = TableOf(<<>>)
    /\ hv' = [hv EXCEPT ![p].pc = "insert"]
    /\ UNCHANGED <<dbExists, schemaExists, crmTable, temp_customer_map, runs, requested>>
    /\ UNCHANGED crmRunVars
    /\ UNCHANGED logVars
    /\ UNCHANGED simpleVars

\* CREATE TABLE IF NOT EXISTS ... AS select_sql WHERE 1=0 (line 172)
HvPersistCreateEmpty(p) ==
    /\ hv[p].pc = "persist"
    /\ ~hv[p].overwrite
    /\ temp_customer_map.exists
    /\ hvTable' = IF hvTable.exists THEN hvTable ELSE TableOf(<<>>)
    /\ hv' = [hv EXCEPT ![p].pc = "insert"]
    /\ UNCHANGED <<dbExists, schemaExists, crmTable, temp_customer_map, runs, requested>>
    /\ UNCHANGED crmRunVars
    /\ UNCHANGED logVars
    /\ UNCHANGED simpleVars

\* INSERT INTO ... select_sql (line 173)
HvPersistInsert(p) ==
    /\ hv[p].pc = "insert"
    /\ hvTable.exists
    /\ temp_customer_map.exists
    /\ LET rws == HvSelect(hv[p].total_events, hv[p].attach_customer_pct,
                           temp_customer_map.rows)
       IN  /\ hvTable' = TableOf(hvTable.rows \o rws)
           /\ hv' = [hv EXCEPT ![p].pc = "drop", ![p].batch = rws,
                               ![p].read_map_of = temp_customer_map.built_by]
    /\ UNCHANGED <<dbExists, schemaExists, crmTable, temp_customer_map, runs, requested>>
    /\ UNCHANGED crmRunVars
    /\ UNCHANGED logVars
    /\ UNCHANGED simpleVars

\* DROP TABLE IF EXISTS TEMP_CUSTOMER_MAP_HV (line 176)
HvDropCustomerMap(p) ==
    /\ hv[p].pc = "drop"
    /\ temp_customer_map' = NoMap
    /\ hv' = [hv EXCEPT ![p].pc = "done"]
    /\ UNCHANGED <<dbExists, schemaExists, crmTable, hvTable, runs, requested>>
    /\ UNCHANGED crmRunVars
    /\ UNCHANGED logVars
    /\ UNCHANGED simpleVars

\* session.sql(...).collect() raises (line 19): the store fails the statement,
\* the customer table or the customer map is missing, or the join key divides
\* by zero.  The exception leaves run(); line 176 is not reached.
HvExecFails(p) ==
    /\ hv[p].pc \in {"create_db", "create_schema", "map", "persist", "insert", "drop"}
    /\ hv' = [hv EXCEPT ![p].pc = "failed", ![p].err = "ExecutionError"]
    /\ UNCHANGED <<dbExists, schemaExists, crmTable, hvTable, temp_customer_map,
                   runs, requested>>
    /\ UNCHANGED crmRunVars
    /\ UNCHANGED logVars
    /\ UNCHANGED simpleVars

\* the warehouse an event synthesizer finds: no Customer Synthesizer runs,
\* the customer table is one of customers
CustomersOnly(customers) ==
    /\ dbExists = FALSE
    /\ schemaExists = FALSE
    /\ crmTable \in customers
    /\ sourceTable = <<>>
    /\ pc = "idle"
    /\ target_rows = 0
    /\ overwrite = TRUE
    /\ params = NoParams
    /\ tmp_source = NoTable
    /\ tmp_base = NoTable
    /\ tmp_final = NoTable
    /\ err = "none"
    /\ walk = NoWalk
    /\ runs = 0
    /\ requested = 0

\* the warehouse before any High-Volume run
InitHvWith(customers) == CustomersOnly(customers) /\ EventsIdle

---------------------------------------------------------------------------
(* High-Volume runs of one session, one after the other *)

\* the total_events tried
HvEventCounts == {0, 2, MaxHvEvents}

InitHv == InitHvWith(HvCustomerTables)

HvStart ==
    \E n \in HvEventCounts, a \in HvAttachPcts, ow \in BOOLEAN :
        /\ runs < MaxRuns
        /\ requested + Cost(n) <= MaxHvSessionEvents
        /\ HvEnter(1, n, a, ow)

NextHv ==
    \/ HvStart
    \/ HvCreateDatabase(1)
    \/ HvCreateSchema(1)
    \/ HvCreateCustomerMap(1)
    \/ HvPersistReplace(1)
    \/ HvPersistCreateEmpty(1)
    \/ HvPersistInsert(1)
    \/ HvDropCustomerMap(1)
    \/ HvExecFails(1)

SpecHv == InitHv /\ [][NextHv]_vars

---------------------------------------------------------------------------
(* The event times of a High-Volume run: the rows of the base_events CTE   *)
(* (lines 53-62) for small and for large total_events                      *)

\* the first event count whose last event leaves the four weeks, and the
\* count just below it
LargeEventCounts == {1209600, 1209601, DefaultEvents}

TimedEventCounts == (1..MaxTimedEvents) \cup LargeEventCounts

\* the event ids of a run that are examined
TimedEventIds(n) ==
    {k \in (1..MaxTimedEvents) \cup LargeEventCounts \cup {n - 1, n} :
        1 <= k /\ k <= n}

BaseEventRow(event_id) ==
    [event_id |-> event_id, event_time |-> event_time(event_id),
     slot_start_time |-> DateTruncHour(event_time(event_id)),
     programme_id |-> HvProgrammeId(event_time(event_id))]

InitHvTimes ==
    /\ dbExists = TRUE
    /\ schemaExists = TRUE
    /\ crmTable = TableOf(HvCustomers)
    /\ sourceTable = <<>>
    /\ pc = "idle"
    /\ target_rows = 0
    /\ overwrite = TRUE
    /\ params = NoParams
    /\ tmp_source = NoTable
    /\ tmp_base = NoTable
    /\ tmp_final = NoTable
    /\ err = "none"
    /\ walk = NoWalk
    /\ runs = 1
    /\ requested = 0
    /\ hvTable = NoTable
    /\ temp_customer_map = NoMap
    /\ LogsIdle
    /\ SimpleIdle
    /\ \E n \in TimedEventCounts :
          hv = [p \in Procs |->
                  IF p = 1 THEN [NoHvRun EXCEPT !.pc = "events", !.total_events = n]
                  ELSE NoHvRun]

\* base_events yields the row of one of its event ids
HvBaseEvent ==
    /\ hv[1].pc = "events"
    /\ \E k \in TimedEventIds(hv[1].total_events) :
          hv' = [hv EXCEPT ![1].batch = <<BaseEventRow(k)>>]
    /\ UNCHANGED <<dbExists, schemaExists, crmTable, hvTable, temp_customer_map,
                   runs, requested>>
    /\ UNCHANGED crmRunVars
    /\ UNCHANGED logVars
    /\ UNCHANGED simpleVars

NextHvTimes == HvBaseEvent

SpecHvTimes == InitHvTimes /\ [][NextHvTimes]_vars

---------------------------------------------------------------------------
(* High-Volume runs of two sessions at the same time: the statements of    *)
(* the two runs interleave                                                 *)

InitHvPair == InitHvWith({TableOf(HvCustomers)})

HvPairStart ==
    \E p \in Procs, ow \in BOOLEAN :
        /\ runs < MaxRuns
        /\ HvEnter(p, PairEvents, 1000, ow)

NextHvPair ==
    \/ HvPairStart
    \/ \E p \in Procs : HvCreateDatabase(p)
    \/ \E p \in Procs : HvCreateSchema(p)
    \/ \E p \in Procs : HvCreateCustomerMap(p)
    \/ \E p \in Procs : HvPersistReplace(p)
    \/ \E p \in Procs : HvPersistCreateEmpty(p)
    \/ \E p \in Procs : HvPersistInsert(p)
    \/ \E p \in Procs : HvDropCustomerMap(p)
    \/ \E p \in Procs : HvExecFails(p)

SpecHvPair == InitHvPair /\ [][NextHvPair]_vars

---------------------------------------------------------------------------
(* Calendar-weighted synthesizer (tf1_viewing_logs_generator.py):          *)
(* run(session, sample_multiplier, attach_customer_pct, overwrite)         *)

\* GENERATOR(ROWCOUNT => 336): 7 days of 48 half-hour slots (line 70)
SlotCount == 336

\* GENERATOR(ROWCOUNT => 600): the candidate events of a slot (line 113)
CandidatesPerSlot == 600

\* UNIFORM(0, 30, RANDOM()) of line 104: an integer from 0 to 30, both included
JitterMax == 30

\* EXTRACT(HOUR FROM slot_start_ts), slot_start_ts being slot_index half hours
\* after DATE_TRUNC('WEEK', CURRENT_DATE()), a Monday at 00:00
hr(slot_index) == (slot_index % 48) \div 2

\* EXTRACT(DOW FROM slot_start_ts): 0 is Sunday, 1 Monday, 6 Saturday
dow(slot_index) == ((slot_index \div 48) + 1) % 7

\* mutation: the weight of the hours 21-22 given to the hours 00-05
hour_weight_flipped(h) ==
    IF h <= 5 THEN 12
    ELSE IF h <= 8 THEN 3
    ELSE IF h <= 12 THEN 4
    ELSE IF h = 13 THEN 6
    ELSE IF h <= 17 THEN 4
    ELSE IF h <= 19 THEN 6
    ELSE IF h = 20 THEN 8
    ELSE IF h <= 22 THEN 1
    ELSE IF h = 23 THEN 4
    ELSE 3

\* the CASE over the hour (lines 85-95)
hour_weight(h) ==
    IF 0 <= h /\ h <= 5 THEN 1
    ELSE IF 6 <= h /\ h <= 8 THEN 3
    ELSE IF 9 <= h /\ h <= 12 THEN 4
    ELSE IF h = 13 THEN 6
    ELSE IF 14 <= h /\ h <= 17 THEN 4
    ELSE IF 18 <= h /\ h <= 19 THEN 6
    ELSE IF h = 20 THEN 8
    ELSE IF 21 <= h /\ h <= 22 THEN 12
    ELSE IF h = 23 THEN 4
    ELSE 3

\* w of slot_weight (line 96) times ten: the weekend factor 1.2 is 12
w(slot_index) ==
    hour_weight(hr(slot_index)) * (IF dow(slot_index) \in {0, 6} THEN 12 ELSE 10)

\* ROUND(num / den) of SQL for den > 0: a half goes away from zero
SqlRound(num, den) ==
    IF num >= 0 THEN (2 * num + den) \div (2 * den)
    ELSE 0 - ((2 * (0 - num) + den) \div (2 * den))

\* mutation: the floor of 20 left out
events_per_slot_no_floor(slot_index, jitter, sample_multiplier) ==
    LET v == SqlRound((100 + jitter) * w(slot_index) * sample_multiplier, 100)
    IN  IF v > 600 THEN 600 ELSE v

\* LEAST(600, GREATEST(20, ROUND((100 + jitter) * w * sample_multiplier / 10)))
\* (line 104); w(slot_index) is ten times w
events_per_slot(slot_index, jitter, sample_multiplier) ==
    LET v == SqlRound((100 + jitter) * w(slot_index) * sample_multiplier, 100)
        g == IF v < 20 THEN 20 ELSE v
    IN  IF g > 600 THEN 600 ELSE g

\* the events CTE (lines 107-115): of the CandidatesPerSlot candidates of a
\* slot, those numbered up to events_per_slot are kept
EventsKept(cap) == IF cap > CandidatesPerSlot THEN CandidatesPerSlot
                   ELSE IF cap < 0 THEN 0 ELSE cap

\* the draws of jitter tried: the draw of slot s in the run with offset k
JitterOffsets == 0..JitterMax

JitterOf(k, slot_index) == (slot_index + k) % (JitterMax + 1)

\* the cust_pool CTE (lines 117-121): SAMPLE (2.5) keeps the rows at the
\* positions keep, rn numbers them in a random order
cust_pool(rws, keep, rn) ==
    LET kept == SelectIdx(rws, keep, 1)
    IN  [i \in 1..Len(kept) |-> [customer_id |-> kept[i].customer_id, rn |-> rn[i]]]

\* mutation: pool_max one above the largest rn
mx_above(pool) == Len(pool) + 1

\* pool_max: COALESCE(MAX(rn), 1) (line 123)
mx(pool) ==
    IF pool = <<>> THEN 1
    ELSE LET rns == {pool[i].rn : i \in 1..Len(pool)}
         IN  CHOOSE x \in rns : \A y \in rns : y <= x

\* UNIFORM(0, 1, RANDOM()) of line 136 is the integer 0 or 1; the draws tried
\* for the events of a run: all 0, all 1, two of each in turn
AttachDraws == {"zeros", "ones", "alternate"}

UniformDraw(d, event_seq) ==
    IF d = "zeros" THEN 0 ELSE IF d = "ones" THEN 1
    ELSE ((event_seq + 1) \div 2) % 2

\* CASE WHEN UNIFORM(0,1,RANDOM()) < attach_customer_pct THEN 1 ELSE 0 END
\* (line 136), attach_pct in thousandths
attach_flag(u, a) == IF u * 1000 < attach_pct(a) THEN 1 ELSE 0

\* mutation: the pool joined with an inner join
PoolJoinInner(slot_index, event_seq, pool) ==
    LET k == ((slot_index * 1000 + event_seq) % mx(pool)) + 1
    IN  SelectSeq(pool, LAMBDA cp : k = cp.rn)

\* enriched LEFT JOIN cust_pool cp ON ((slot_index * 1000 + event_seq) % mx)
\* + 1 = cp.rn (lines 151-153) for one event: the matching rows of the pool,
\* or one row with a null customer
PoolJoin(slot_index, event_seq, pool) ==
    LET k     == ((slot_index * 1000 + event_seq) % mx(pool)) + 1
        match == SelectSeq(pool, LAMBDA cp : k = cp.rn)
    IN  IF match = <<>> THEN <<[customer_id |-> NULL]>> ELSE match

\* CASE WHEN attach_flag = 1 THEN cp.customer_id ELSE NULL END (line 148)
\* over the joined rows j of one event
WithCustomer(j, flag) ==
    [i \in 1..Len(j) |-> IF flag = 1 THEN j[i].customer_id ELSE NULL]

\* the customer_id column of the with_customer rows of one event
EventCustomers(slot_index, event_seq, pool, a, d) ==
    WithCustomer(PoolJoin(slot_index, event_seq, pool),
                 attach_flag(UniformDraw(d, event_seq), a))

\* the with_customer rows of the events 1..kept of one slot, as pairs of an
\* event_seq and the position of the row among the rows joined to that event;
\* counted: all of them, those with a null customer_id, those of an event
\* with attach_flag = 1 and those of an event no pool row was joined to; ids
\* are the customer_id values of the rows that have one
SlotRows(kept, slot_index, pool, a, d) ==
    LET rows_of(e) ==
            LET j    == PoolJoin(slot_index, e, pool)
                flag == attach_flag(UniformDraw(d, e), a)
                c    == WithCustomer(j, flag)
            IN  { <<e, i, c[i], flag, IsNull(j[i].customer_id)>> :
                  i \in 1..Len(j) }
        counted ==
            { [rows |-> Cardinality(out),
               null_rows |-> Cardinality({x \in out : IsNull(x[3])}),
               flagged |-> Cardinality({x \in out : x[4] = 1}),
               unmatched |-> Cardinality({x \in out : x[5]}),
               ids |-> {x[3] : x \in out} \ {NULL}] :
              out \in { UNION { rows_of(e) : e \in 1..kept } } }
    IN  CHOOSE r \in counted : TRUE

\* the slot_cap CTE for the next slot: its events_per_slot, added to the sum
\* and recorded under its hour
SlotCapOf(l) ==
    LET s   == l.slot_index
        cap == events_per_slot(s, JitterOf(l.jitter, s), l.sample_multiplier)
    IN  [l EXCEPT !.events_per_slot = cap,
                  !.targets = @ + cap,
                  !.peak_counts = IF hr(s) \in {21, 22} THEN @ \cup {cap} ELSE @,
                  !.off_counts = IF hr(s) \in 0..5 THEN @ \cup {cap} ELSE @]

---------------------------------------------------------------------------
(* The slot counts of a run: the slot_cap CTE (lines 99-106) over the 336  *)
(* slots, for a range of sample_multiplier and of jitter draws             *)

\* sample_multiplier is an unchecked integer: negative, zero, small and large
SlotMultipliers == (-1..MaxMultiplier) \cup {100, 1000}

InitSlots ==
    /\ CustomersOnly({TableOf(HvCustomers)})
    /\ HvIdle
    /\ SimpleIdle
    /\ logTable = NoLogTable
    /\ \E m \in SlotMultipliers, k \in JitterOffsets :
          logs = [NoLogsRun EXCEPT !.pc = "slot_cap", !.sample_multiplier = m,
                                   !.jitter = k]

\* slot_cap yields the row of the next slot
SlotCap ==
    /\ logs.pc = "slot_cap"
    /\ logs.slot_index < SlotCount
    /\ logs' = [SlotCapOf(logs) EXCEPT !.slot_index = @ + 1]
    /\ UNCHANGED <<dbExists, schemaExists, crmTable, runs, requested, logTable,
                   hvTable, temp_customer_map, hv>>
    /\ UNCHANGED crmRunVars
    /\ UNCHANGED simpleVars

NextSlots == SlotCap

SpecSlots == InitSlots /\ [][NextSlots]_vars

---------------------------------------------------------------------------
(* The run of the calendar-weighted synthesizer *)

\* the runs tried: sample_multiplier 0 and 1 with attach_customer_pct 0 and
\* 0.30 (in thousandths) in both modes, and a run with sample_multiplier 4,
\* whose busiest slots reach the cap
LogsInputs ==
    [m : {0, 1}, a : {0, 300}, ow : BOOLEAN]
        \cup {[m |-> 4, a |-> 300, ow |-> TRUE]}

\* the jitter draws tried in a full run
LogsJitterOffsets == {0}

\* run() is entered; nothing in lines 32-49 checks the parameters
LogsEnter(m, a, ow) ==
    /\ logs.pc \in {"idle", "done", "failed"}
    /\ logs' = [NoLogsRun EXCEPT !.pc = "create_db", !.sample_multiplier = m,
                                 !.attach_customer_pct = a, !.overwrite = ow]
    /\ runs' = runs + 1
    /\ UNCHANGED <<dbExists, schemaExists, crmTable, requested, logTable,
                   hvTable, temp_customer_map, hv>>
    /\ UNCHANGED crmRunVars
    /\ UNCHANGED simpleVars

\* one run in a behaviour
LogsStart ==
    \E i \in LogsInputs :
        /\ runs = 0
        /\ LogsEnter(i.m, i.a, i.ow)

\* CREATE DATABASE IF NOT EXISTS (line 50)
LogsCreateDatabase ==
    /\ logs.pc = "create_db"
    /\ dbExists' = TRUE
    /\ logs' = [logs EXCEPT !.pc = "create_schema"]
    /\ UNCHANGED <<schemaExists, crmTable, runs, requested, logTable,
                   hvTable, temp_customer_map, hv>>
    /\ UNCHANGED crmRunVars
    /\ UNCHANGED simpleVars

\* CREATE SCHEMA IF NOT EXISTS (line 51)
LogsCreateSchema ==
    /\ logs.pc = "create_schema"
    /\ schemaExists' = TRUE
    /\ logs' = [logs EXCEPT !.pc = "persist"]
    /\ UNCHANGED <<dbExists, crmTable, runs, requested, logTable,
                   hvTable, temp_customer_map, hv>>
    /\ UNCHANGED crmRunVars
    /\ UNCHANGED simpleVars

\* CREATE TABLE IF NOT EXISTS ... AS select_sql WHERE 1=0 (line 269);
\* select_sql names the customer table
LogsPersistCreateEmpty ==
    /\ logs.pc = "persist"
    /\ ~logs.overwrite
    /\ crmTable.exists
    /\ logTable' = IF logTable.exists THEN logTable
                   ELSE [exists |-> TRUE, rows |-> 0, null_ids |-> 0]
    /\ logs' = [logs EXCEPT !.pc = "insert"]
    /\ UNCHANGED <<dbExists, schemaExists, crmTable, runs, requested,
                   hvTable, temp_customer_map, hv>>
    /\ UNCHANGED crmRunVars
    /\ UNCHANGED simpleVars

\* the statement of line 267 or of line 270 starts to evaluate select_sql:
\* the pool is sampled from the customer table (lines 117-121) and the random
\* draws of the statement are fixed
LogsSelect ==
    /\ \/ logs.pc = "persist" /\ logs.overwrite
       \/ logs.pc = "insert"
    /\ crmTable.exists
    /\ \E keep \in SUBSET (1..Len(crmTable.rows)) :
          \E rn \in Permutations(1..Cardinality(keep)) :
             \E k \in LogsJitterOffsets, d \in AttachDraws :
                logs' = [logs EXCEPT !.pc = "slots",
                            !.cust_pool = cust_pool(crmTable.rows, keep, rn),
                            !.jitter = k, !.draws = d]
    /\ UNCHANGED <<dbExists, schemaExists, crmTable, runs, requested, logTable,
                   hvTable, temp_customer_map, hv>>
    /\ UNCHANGED crmRunVars
    /\ UNCHANGED simpleVars

\* the rows of the next slot (lines 99-154)
SlotEvents ==
    /\ logs.pc = "slots"
    /\ logs.slot_index < SlotCount
    /\ LET c == SlotCapOf(logs)
           r == SlotRows(EventsKept(c.events_per_slot), logs.slot_index,
                         logs.cust_pool, logs.attach_customer_pct, logs.draws)
       IN  logs' = [c EXCEPT !.slot_index = @ + 1,
                             !.rows = @ + r.rows,
                             !.null_rows = @ + r.null_rows,
                             !.flagged = @ + r.flagged,
                             !.unmatched = @ + r.unmatched,
                             !.ids = @ \cup r.ids]
    /\ UNCHANGED <<dbExists, schemaExists, crmTable, runs, requested, logTable,
                   hvTable, temp_customer_map, hv>>
    /\ UNCHANGED crmRunVars
    /\ UNCHANGED simpleVars

\* CREATE OR REPLACE TABLE ... AS select_sql (line 267) completes
LogsPersistReplace ==
    /\ logs.pc = "slots"
    /\ logs.slot_index = SlotCount
    /\ logs.overwrite
    /\ logTable' = [exists |-> TRUE, rows |-> logs.rows, null_ids |-> logs.null_rows]
    /\ logs' = [logs EXCEPT !.pc = "done"]
    /\ UNCHANGED <<dbExists, schemaExists, crmTable, runs, requested,
                   hvTable, temp_customer_map, hv>>
    /\ UNCHANGED crmRunVars
    /\ UNCHANGED simpleVars

\* INSERT INTO ... select_sql (line 270) completes
LogsPersistInsert ==
    /\ logs.pc = "slots"
    /\ logs.slot_index = SlotCount
    /\ ~logs.overwrite
    /\ logTable.exists
    /\ logTable' = [exists |-> TRUE, rows |-> logTable.rows + logs.rows,
                    null_ids |-> logTable.null_ids + logs.null_rows]
    /\ logs' = [logs EXCEPT !.pc = "done"]
    /\ UNCHANGED <<dbExists, schemaExists, crmTable, runs, requested,
                   hvTable, temp_customer_map, hv>>
    /\ UNCHANGED crmRunVars
    /\ UNCHANGED simpleVars

\* session.sql(...).collect() raises (line 29): the store fails the statement
\* or the customer table is missing
LogsExecFails ==
    /\ logs.pc \in {"create_db", "create_schema", "persist", "insert", "slots"}
    /\ logs' = [NoLogsRun EXCEPT !.pc = "failed", !.err = "ExecutionError",
                                 !.sample_multiplier = logs.sample_multiplier,
                                 !.attach_customer_pct = logs.attach_customer_pct,
                                 !.overwrite = logs.overwrite]
    /\ UNCHANGED <<dbExists, schemaExists, crmTable, runs, requested, logTable,
                   hvTable, temp_customer_map, hv>>
    /\ UNCHANGED crmRunVars
    /\ UNCHANGED simpleVars

InitLogs == CustomersOnly(HvCustomerTables) /\ EventsIdle

NextLogs ==
    \/ LogsStart
    \/ LogsCreateDatabase
    \/ LogsCreateSchema
    \/ LogsPersistCreateEmpty
    \/ LogsSelect
    \/ SlotEvents
    \/ LogsPersistReplace
    \/ LogsPersistInsert
    \/ LogsExecFails

SpecLogs == InitLogs /\ [][NextLogs]_vars

---------------------------------------------------------------------------
(* Simplified weekly generator (tf1_viewing_logs_generator_simple.py):     *)
(* run(session, sample_multiplier, attach_customer_pct, overwrite)         *)

\* GENERATOR(ROWCOUNT => 2016 * sample_multiplier) (line 55)
EventsPerMultiplier == 2016

\* SELECT customer_id, ROW_NUMBER() OVER (ORDER BY RANDOM()) AS rn FROM
\* SF1PLUS_CRM SAMPLE (10) (lines 41-43)
SimpleMapRows(rws, keep, rn) ==
    LET kept == SelectIdx(rws, keep, 1)
    IN  [i \in 1..Len(kept) |-> [customer_id |-> kept[i].customer_id, rn |-> rn[i]]]

\* the base_events CTE (lines 51-54): five minutes per event from the start
\* of the current week, in seconds
simple_event_time(event_id) == (event_id - 1) * 5 * 60

\* 'TF1-' || TO_CHAR(e.event_time, 'YYYYMMDD-HH24MI') (line 74): the prefix
\* and the number of the minute, counted from the start of the current week
SimpleProgrammeId(t) == <<"TF1-", t \div 60>>

\* CASE WHEN (event_id % 100) < (attach_pct * 100) THEN 1 ELSE 0 END (line 64)
should_attach_customer(event_id, a) ==
    IF (event_id % 100) * 10 < attach_pct(a) THEN 1 ELSE 0

\* ((event_id % 1000) + 1) (line 65)
customer_rn_target(event_id) == (event_id % 1000) + 1

\* events_with_customer_flag e LEFT JOIN customer_map c ON c.rn =
\* e.customer_rn_target (lines 157-158) for one event
SimpleJoin(event_id, map) ==
    LET match == SelectSeq(map, LAMBDA c :
                              c.rn = customer_rn_target(event_id))
    IN  IF match = <<>> THEN <<[customer_id |-> NULL]>> ELSE match

\* the rows of the enriched CTE for one event (lines 68-159), with the
\* columns of the final CTE that are not derived from event_id alone
SimpleEventRows(event_id, a, map) ==
    LET j == SimpleJoin(event_id, map)
        t == simple_event_time(event_id)
    IN  [i \in 1..Len(j) |->
            [event_id |-> event_id, event_time |-> t,
             slot_start_time |-> DateTruncHour(t),
             programme_id |-> SimpleProgrammeId(t),
             should_attach_customer |-> should_attach_customer(event_id, a),
             customer_id |-> IF should_attach_customer(event_id, a) = 1
                             THEN j[i].customer_id ELSE NULL]]

RECURSIVE SimpleSelectRange(_, _, _, _)
\* the rows of the events lo..hi
SimpleSelectRange(lo, hi, a, map) ==
    IF lo > hi THEN <<>>
    ELSE IF lo = hi THEN SimpleEventRows(lo, a, map)
    ELSE LET mid == (lo + hi) \div 2
         IN  SimpleSelectRange(lo, mid, a, map)
               \o SimpleSelectRange(mid + 1, hi, a, map)

\* select_sql (lines 47-205)
SimpleSelect(sample_multiplier, a, map) ==
    SimpleSelectRange(1, EventsPerMultiplier * sample_multiplier, a, map)

\* the rows of a batch as TF1_VIEWING_LOGS is kept: their number and the
\* number of them with a null customer_id
NullIds(rws) == Cardinality({i \in 1..Len(rws) : IsNull(rws[i].customer_id)})

\* run() is entered; nothing in lines 22-30 checks the parameters
SimpleEnter(sm, a, ow) ==
    /\ simple.pc \in {"idle", "done", "failed"}
    /\ simple' = [NoSimpleRun EXCEPT !.pc = "create_db",
                                     !.sample_multiplier = sm,
                                     !.attach_customer_pct = a,
                                     !.overwrite = ow]
    /\ runs' = runs + 1
    /\ UNCHANGED <<dbExists, schemaExists, crmTable, requested, logTable, logs,
                   simple_customer_map, hvTable, temp_customer_map, hv>>
    /\ UNCHANGED crmRunVars

\* CREATE DATABASE IF NOT EXISTS (line 31)
SimpleCreateDatabase ==
    /\ simple.pc = "create_db"
    /\ dbExists' = TRUE
    /\ simple' = [simple EXCEPT !.pc = "create_schema"]
    /\ UNCHANGED <<schemaExists, crmTable, runs, requested, logTable, logs,
                   simple_customer_map, hvTable, temp_customer_map, hv>>
    /\ UNCHANGED crmRunVars

\* CREATE SCHEMA IF NOT EXISTS (line 32)
SimpleCreateSchema ==
    /\ simple.pc = "create_schema"
    /\ schemaExists' = TRUE
    /\ simple' = [simple EXCEPT !.pc = "map"]
    /\ UNCHANGED <<dbExists, crmTable, runs, requested, logTable, logs,
                   simple_customer_map, hvTable, temp_customer_map, hv>>
    /\ UNCHANGED crmRunVars

\* mutation: the statement of lines 39-44 replaces the customer table
SimpleCreateMapOverCustomers ==
    /\ simple.pc = "map"
    /\ crmTable.exists
    /\ \E keep \in SUBSET (1..Len(crmTable.rows)) :
          \E rn \in Permutations(1..Cardinality(keep)) :
             crmTable' = TableOf(SimpleMapRows(crmTable.rows, keep, rn))
    /\ simple' = [simple EXCEPT !.pc = "persist", !.made_map = TRUE]
    /\ UNCHANGED <<dbExists, schemaExists, simple_customer_map, runs, requested,
                   logTable, logs, hvTable, temp_customer_map, hv>>
    /\ UNCHANGED crmRunVars

\* CREATE OR REPLACE TABLE TEMP_CUSTOMER_MAP AS ... (lines 38-44); the
\* statement needs the customer table
SimpleCreateCustomerMap ==
    /\ simple.pc = "map"
    /\ crmTable.exists
    /\ \E keep \in SUBSET (1..Len(crmTable.rows)) :
          \E rn \in Permutations(1..Cardinality(keep)) :
             simple_customer_map' =
                 TableOf(SimpleMapRows(crmTable.rows, keep, rn))
    /\ simple' = [simple EXCEPT !.pc = "persist", !.made_map = TRUE]
    /\ UNCHANGED <<dbExists, schemaExists, crmTable, runs, requested, logTable,
                   logs, hvTable, temp_customer_map, hv>>
    /\ UNCHANGED crmRunVars

\* CREATE OR REPLACE TABLE ... AS select_sql (line 208)
SimplePersistReplace ==
    /\ simple.pc = "persist"
    /\ simple.overwrite
    /\ simple_customer_map.exists
    /\ LET rws == SimpleSelect(simple.sample_multiplier,
                               simple.attach_customer_pct,
                               simple_customer_map.rows)
       IN  /\ logTable' = [exists |-> TRUE, rows |-> Len(rws),
                           null_ids |-> NullIds(rws)]
           /\ simple' = [simple EXCEPT !.pc = "drop", !.batch = rws,
                             !.map_rows = Len(simple_customer_map.rows)]
    /\ UNCHANGED <<dbExists, schemaExists, crmTable, runs, requested, logs,
                   simple_customer_map, hvTable, temp_customer_map, hv>>
    /\ UNCHANGED crmRunVars

\* CREATE TABLE IF NOT EXISTS ... AS select_sql WHERE 1=0 (line 210)
SimplePersistCreateEmpty ==
    /\ simple.pc = "persist"
    /\ ~simple.overwrite
    /\ simple_customer_map.exists
    /\ logTable' = IF logTable.exists THEN logTable
                   ELSE [exists |-> TRUE, rows |-> 0, null_ids |-> 0]
    /\ simple' = [simple EXCEPT !.pc = "insert"]
    /\ UNCHANGED <<dbExists, schemaExists, crmTable, runs, requested, logs,
                   simple_customer_map, hvTable, temp_customer_map, hv>>
    /\ UNCHANGED crmRunVars

\* INSERT INTO ... select_sql (line 211)
SimplePersistInsert ==
    /\ simple.pc = "insert"
    /\ logTable.exists
    /\ simple_customer_map.exists
    /\ LET rws == SimpleSelect(simple.sample_multiplier,
                               simple.attach_customer_pct,
                               simple_customer_map.rows)
       IN  /\ logTable' = [exists |-> TRUE, rows |-> logTable.rows + Len(rws),
                           null_ids |-> logTable.null_ids + NullIds(rws)]
           /\ simple' = [simple EXCEPT !.pc = "drop", !.batch = rws,
                             !.map_rows = Len(simple_customer_map.rows)]
    /\ UNCHANGED <<dbExists, schemaExists, crmTable, runs, requested, logs,
                   simple_customer_map, hvTable, temp_customer_map, hv>>
    /\ UNCHANGED crmRunVars

\* DROP TABLE IF EXISTS TEMP_CUSTOMER_MAP (line 214)
SimpleDropCustomerMap ==
    /\ simple.pc = "drop"
    /\ simple_customer_map' = NoTable
    /\ simple' = [simple EXCEPT !.pc = "done"]
    /\ UNCHANGED <<dbExists, schemaExists, crmTable, runs, requested, logTable,
                   logs, hvTable, temp_customer_map, hv>>
    /\ UNCHANGED crmRunVars

\* session.sql(...).collect() raises (line 19): the store fails the statement
\* or the customer table is missing.  The exception leaves run(); line 214
\* is not reached.
SimpleExecFails ==
    /\ simple.pc \in {"create_db", "create_schema", "map", "persist", "insert",
                      "drop"}
    /\ simple' = [simple EXCEPT !.pc = "failed", !.err = "ExecutionError"]
    /\ UNCHANGED <<dbExists, schemaExists, crmTable, runs, requested, logTable,
                   logs, simple_customer_map, hvTable, temp_customer_map, hv>>
    /\ UNCHANGED crmRunVars

\* the runs tried: sample_multiplier 0 and 1, attach_customer_pct 0, 0.30
\* and 1 (in thousandths), both modes
SimpleInputs == [m : {0, 1}, a : {0, 300, 1000}, ow : BOOLEAN]

\* one run in a behaviour
SimpleStart ==
    \E i \in SimpleInputs :
        /\ runs = 0
        /\ SimpleEnter(i.m, i.a, i.ow)

InitSimple == CustomersOnly(HvCustomerTables) /\ EventsIdle

NextSimple ==
    \/ SimpleStart
    \/ SimpleCreateDatabase
    \/ SimpleCreateSchema
    \/ SimpleCreateCustomerMap
    \/ SimplePersistReplace
    \/ SimplePersistCreateEmpty
    \/ SimplePersistInsert
    \/ SimpleDropCustomerMap
    \/ SimpleExecFails

SpecSimple == InitSimple /\ [][NextSimple]_vars

---------------------------------------------------------------------------
(* One run of one of the three event synthesizers over the same warehouse  *)

InitSynth == CustomersOnly(HvCustomerTables) /\ EventsIdle

\* the run of the behaviour: a high-volume run of PairEvents events, a
\* calendar-weighted run with sample_multiplier = 0 or a simplified run, each
\* in both modes
SynthStart ==
    /\ runs = 0
    /\ \/ \E ow \in BOOLEAN : HvEnter(1, PairEvents, 300, ow)
       \/ \E ow \in BOOLEAN : LogsEnter(0, 300, ow)
       \/ \E i \in SimpleInputs : SimpleEnter(i.m, i.a, i.ow)

NextSynth ==
    \/ SynthStart
    \/ HvCreateDatabase(1)
    \/ HvCreateSchema(1)
    \/ HvCreateCustomerMap(1)
    \/ HvPersistReplace(1)
    \/ HvPersistCreateEmpty(1)
    \/ HvPersistInsert(1)
    \/ HvDropCustomerMap(1)
    \/ HvExecFails(1)
    \/ LogsCreateDatabase
    \/ LogsCreateSchema
    \/ LogsPersistCreateEmpty
    \/ LogsSelect
    \/ SlotEvents
    \/ LogsPersistReplace
    \/ LogsPersistInsert
    \/ LogsExecFails
    \/ SimpleCreateDatabase
    \/ SimpleCreateSchema
    \/ SimpleCreateCustomerMap
    \/ SimplePersistReplace
    \/ SimplePersistCreateEmpty
    \/ SimplePersistInsert
    \/ SimpleDropCustomerMap
    \/ SimpleExecFails

SpecSynth == InitSynth /\ [][NextSynth]_vars

---------------------------------------------------------------------------
(* Properties *)

IdsOf(rws) == {rws[i].customer_id : i \in 1..Len(rws)}

IdsDistinct(rws) == Cardinality(IdsOf(rws)) = Len(rws)

CountOf(rws, types) ==
    Cardinality({i \in 1..Len(rws) : rws[i].overlap_type \in types})

BaseTypes == {"TRIPLE", "EMAIL", "PHONE", "NONE"}

OverlapTypes == {"TRIPLE", "EMAIL", "PHONE"}

Abs(x) == IF x < 0 THEN 0 - x ELSE x

C2_DuplicatesFromNone ==
    pc \in {"persist", "insert", "done"} =>
        LET rws  == tmp_final.rows
            dups == {i \in 1..Len(rws) : rws[i].overlap_type = "DUPLICATE"}
            origins(i) ==
                {j \in 1..Len(rws) :
                    /\ rws[j].overlap_type # "DUPLICATE"
                    /\ rws[j].customer_id \o <<"_", "D", "U", "P">>
                         = rws[i].customer_id}
        IN  /\ Cardinality(dups) = target_rows - Round(9 * target_rows, 10)
            /\ \A i \in dups :
                  /\ Cardinality(origins(i)) = 1
                  /\ \A j \in origins(i) : rws[j].overlap_type = "NONE"
            /\ \A i \in dups, k \in dups :
                  i # k => origins(i) \cap origins(k) = {}

\* the output of a run with two duplicates
C2_Witness ==
    /\ pc = "done"
    /\ CountOf(tmp_final.rows, {"DUPLICATE"}) = 2

\* C3: the number of rows whose category is TRIPLE, EMAIL or PHONE is
\* round(target_rows*0.25), within 2.
C3_OverlapCount ==
    pc = "kept" =>
        Abs(walk.overlap_rows - Round(target_rows, 4)) <= 2

\* the example run, with 250 overlap rows among its 900 base rows
C3_Witness ==
    /\ pc = "kept" /\ target_rows \in ExampleRows
    /\ walk.row_id = 900 /\ walk.overlap_rows = 250

\* C4: the categories partition the row ids 1..base_count into contiguous
\* ranges: 1..triple_count TRIPLE, the next email_count EMAIL, the next
\* phone_count PHONE, the rest NONE; target_rows = 1000 gives 900/100/250,
\* 80/100/70 and rows 1-80, 81-180, 181-250, 251-900.
C4_ContiguousPartition ==
    /\ (pc # "alloc" /\ target_rows \in ExampleRows) =>
          params = [base_count |-> 900, dup_count |-> 100,
                    overlap_total_target |-> 250, triple_count |-> 80,
                    email_extra_count |-> 100, phone_extra_count |-> 70]
    /\ (pc \in {"assign", "kept"} /\ walk.row_id >= 1) =>
          LET i  == walk.row_id
              t  == params.triple_count
              e  == params.email_extra_count
              ph == params.phone_extra_count
              ot == walk.overlap_type
          IN  /\ ot = "TRIPLE" <=> (1 <= i /\ i <= t)
              /\ ot = "EMAIL" <=> (t + 1 <= i /\ i <= t + e)
              /\ ot = "PHONE" <=> (t + e + 1 <= i /\ i <= t + e + ph)
              /\ ot = "NONE" <=> (t + e + ph + 1 <= i /\ i <= params.base_count)
              /\ target_rows \in ExampleRows =>
                    ot = IF i <= 80 THEN "TRIPLE"
                         ELSE IF i <= 180 THEN "EMAIL"
                         ELSE IF i <= 250 THEN "PHONE"
                         ELSE "NONE"

\* row 181 of the example run, the first PHONE row
C4_Witness ==
    /\ pc = "assign" /\ target_rows \in ExampleRows
    /\ walk.row_id = 181 /\ walk.overlap_type = "PHONE"

\* C5: in every output built from a reference population with a row the run
\* accepts, every TRIPLE and PHONE record has a non-null phone and every
\* TRIPLE and EMAIL record a non-null email.
C5_OverlapFieldsNonNull ==
    (pc = "done" /\ SourceKept(sourceTable) # <<>>) =>
        \A i \in 1..Len(tmp_final.rows) :
            LET r == tmp_final.rows[i]
            IN  /\ r.overlap_type \in {"TRIPLE", "PHONE"} => ~IsNull(r.phone)
                /\ r.overlap_type \in {"TRIPLE", "EMAIL"} => ~IsNull(r.email)

\* C6: for target_rows >= 1 the three counts are non-negative and sum to
\* overlap_total, the integer nearest to target_rows/4 (a half to the even one).
C6_CountsNonNegative ==
    (pc \in {"assign", "kept"} /\ target_rows >= 1) =>
        LET o == params.overlap_total_target
        IN  /\ params.triple_count >= 0
            /\ params.email_extra_count >= 0
            /\ params.phone_extra_count >= 0
            /\ params.triple_count + params.email_extra_count
                 + params.phone_extra_count = o
            /\ Abs(4 * o - target_rows) <= 2
            /\ Abs(4 * o - target_rows) = 2 => o % 2 = 0

\* target_rows = 8: overlap_total 2 splits 1/1 and leaves phone_count 0
C6_Witness ==
    /\ pc = "assign" /\ target_rows = 8
    /\ params.triple_count = 1 /\ params.email_extra_count = 1
    /\ params.phone_extra_count = 0

\* C7: for target_rows >= 1, overlap_total <= base_count and the NONE rows
\* (base_count - overlap_total) are at least dup_count, so the duplicate step
\* keeps exactly dup_count rows and base plus duplicates are target_rows.
C7_EnoughNoneRows ==
    /\ (pc \in {"assign", "kept"} /\ target_rows >= 1) =>
          /\ params.overlap_total_target <= params.base_count
          /\ params.base_count - params.overlap_total_target >= params.dup_count
    /\ pc = "kept" =>
          /\ walk.none_rows = params.base_count - params.overlap_total_target
          /\ walk.none_rows >= params.dup_count
          /\ walk.dup_rows = params.dup_count
          /\ walk.row_id + walk.dup_rows = target_rows

\* a walked run that keeps several duplicates
C7_Witness ==
    /\ pc = "kept" /\ params.dup_count >= 2
    /\ walk.dup_rows = params.dup_count

\* C8: after any sequence of successful runs, in any mix of overwrite and
\* append mode, the customer_id values of the customer table are distinct.
C8_PersistedIdsDistinct ==
    pc = "done" => IdsDistinct(crmTable.rows)

\* C9: with a reference population that is empty, or null in both email and
\* phone in every row, no run completes with overlap-category records.
C9_EmptyReferenceFails ==
    SourceKept(sourceTable) = <<>> =>
        ~(pc = "done" /\ CountOf(tmp_final.rows, OverlapTypes) >= 1)

\* C10: a run with a negative row count is rejected before it executes any
\* statement: it never gets past its first one.
C10_NegativeRowsRejected ==
    target_rows < 0 => pc \in {"create_db", "failed"}

\* C11: two overwrite runs with the same target_rows over the same reference
\* population give every base row the same overlap category, first_name and
\* last_name: the rows the second run built agree with the rows the first run
\* left in the customer table.
C11_RerunSameNames ==
    (runs = 2 /\ pc = "persist" /\ crmTable.exists) =>
        \A i \in 1..Len(crmTable.rows), j \in 1..Len(tmp_final.rows) :
            LET a == crmTable.rows[i]
                b == tmp_final.rows[j]
            IN  (a.customer_id = b.customer_id /\ a.overlap_type # "DUPLICATE") =>
                    /\ a.overlap_type = b.overlap_type
                    /\ a.first_name = b.first_name
                    /\ a.last_name = b.last_name

\* the rows of rws for the event ids in ids
EventRows(rws, ids) == {i \in 1..Len(rws) : rws[i].event_id \in ids}

\* the events of ids that carry a customer
Attached(rws, ids) ==
    Cardinality({i \in EventRows(rws, ids) : ~IsNull(rws[i].customer_id)})

\* C16: a High-Volume run in overwrite mode with total_events = N leaves
\* exactly N rows in the output table, one for each event_id in 1..N,
\* whatever the size of the customer map it sampled.
C16_ExactlyNEvents ==
    (hv[1].pc \in {"drop", "done"} /\ hv[1].overwrite) =>
        /\ Len(hvTable.rows) = hv[1].total_events
        /\ \A k \in 1..hv[1].total_events :
              Cardinality(EventRows(hvTable.rows, {k})) = 1

\* an overwrite run of MaxHvEvents events over a map of two customers
C16_Witness ==
    /\ hv[1].pc = "drop" /\ hv[1].overwrite
    /\ hv[1].total_events = MaxHvEvents
    /\ Len(temp_customer_map.rows) = 2
    /\ Len(hvTable.rows) = MaxHvEvents

\* C17 as stated: with a non-empty customer map, exactly
\* floor(attach_pct*100) of every 100 consecutive event_ids carry a customer.
C17_FloorAttached ==
    (hv[1].pc = "drop" /\ temp_customer_map.rows # <<>>) =>
        \A s \in 1..(hv[1].total_events - 99) :
            Attached(hv[1].batch, s..(s + 99))
                = attach_pct(hv[1].attach_customer_pct) \div 10

\* C17 as amended: with a non-empty customer map, exactly
\* ceiling(attach_pct*100) of every 100 consecutive event_ids carry a
\* customer: attach_pct*100 itself when it is an integer, the next integer
\* when it is not.
C17_CeilingAttached ==
    (hv[1].pc = "drop" /\ temp_customer_map.rows # <<>>) =>
        \A s \in 1..(hv[1].total_events - 99) :
            Attached(hv[1].batch, s..(s + 99))
                = (attach_pct(hv[1].attach_customer_pct) + 9) \div 10

\* attach_customer_pct = 0.305: 31 of the events 2..101 carry a customer
C17_Witness ==
    /\ hv[1].pc = "drop" /\ temp_customer_map.rows # <<>>
    /\ hv[1].attach_customer_pct = 305 /\ hv[1].total_events >= 101
    /\ Attached(hv[1].batch, 2..101) = 31

\* C20: after a successful overwrite run the output table holds exactly the
\* rows the run generated, whatever it held before; after a successful append
\* run it holds the rows it held before (none if it was absent), unchanged
\* and in place, followed by one batch of the run's generated rows.
C20_OverwriteAndAppend ==
    /\ (hv[1].pc = "insert") => hvTable.rows = hv[1].before.rows
    /\ (hv[1].pc \in {"drop", "done"}) =>
          /\ Len(hv[1].batch) = hv[1].total_events
          /\ hv[1].overwrite => hvTable.rows = hv[1].batch
          /\ ~hv[1].overwrite => hvTable.rows = hv[1].before.rows \o hv[1].batch
    /\ (hv[1].pc = "drop") =>
          hv[1].batch = HvSelect(hv[1].total_events, hv[1].attach_customer_pct,
                                 temp_customer_map.rows)

\* an append run that added its events to the events of an earlier run
C20_Witness ==
    /\ hv[1].pc = "done" /\ ~hv[1].overwrite
    /\ hv[1].before.exists /\ Len(hv[1].before.rows) >= 2
    /\ Len(hv[1].batch) >= 2
    /\ Len(hvTable.rows) = Len(hv[1].before.rows) + Len(hv[1].batch)

\* C18: event k has event_time = (start of the current week - 21 days)
\* + 2*(k-1) seconds, and every event_time lies in the four weeks that start
\* three weeks before the current week, whatever total_events is.
C18_EventTimeInWindow ==
    \A i \in 1..Len(hv[1].batch) :
        LET r == hv[1].batch[i]
        IN  hv[1].pc = "events" =>
              /\ r.event_time = 2 * (r.event_id - 1) - 21 * 86400
              /\ r.event_time >= 0 - 21 * 86400
              /\ r.event_time < 7 * 86400

\* C19: the intermediate table of a run is its own: from the statement that
\* creates the customer map to the statement that drops it, the map a session
\* finds is the one it built, and the select of a session reads only the map
\* that session built, also while another session runs.
C19_OwnCustomerMap ==
    \A p \in Procs :
        /\ hv[p].pc \in {"persist", "insert", "drop"} =>
              (temp_customer_map.exists /\ temp_customer_map.built_by = p)
        /\ hv[p].pc \in {"drop", "done"} => hv[p].read_map_of = p

\* C12: every slot contributes between 20 and 600 events, the rows output
\* are as many as the per-slot targets add up to (the join with the customer
\* pool neither drops nor duplicates an event), and the table an overwrite
\* run leaves has that many rows, between 336*20 and 336*600.
C12_SlotCountsAndTotal ==
    /\ (logs.pc \in {"slots", "done"} /\ logs.slot_index >= 1) =>
          /\ 20 <= logs.events_per_slot /\ logs.events_per_slot <= 600
          /\ logs.rows = logs.targets
          /\ 20 * logs.slot_index <= logs.rows
          /\ logs.rows <= 600 * logs.slot_index
    /\ (logs.pc = "done" /\ logs.overwrite) =>
          /\ logs.slot_index = 336
          /\ logTable.rows = logs.targets
          /\ 336 * 20 <= logTable.rows /\ logTable.rows <= 336 * 600

\* a completed run with sample_multiplier = 4 over a pool of two customers,
\* some of whose peak slots reached the cap
C12_Witness ==
    /\ logs.pc = "done" /\ logs.sample_multiplier = 4
    /\ Len(logs.cust_pool) = 2
    /\ 600 \in logs.peak_counts
    /\ logTable.rows = logs.targets

\* C13 as stated: for any sample_multiplier and any jitter draws, every slot
\* of the hours 21-22 has more events than every slot of the hours 00-05.
C13_PeakAboveOffPeak ==
    logs.pc = "slot_cap" =>
        \A a \in logs.peak_counts, b \in logs.off_counts : a > b

\* C13 as amended: the same for sample_multiplier from 1 to 38.
C13_PeakAboveOffPeakTo38 ==
    (logs.pc = "slot_cap" /\ 1 <= logs.sample_multiplier
       /\ logs.sample_multiplier <= 38) =>
        \A a \in logs.peak_counts, b \in logs.off_counts : a > b

\* the week with sample_multiplier = 38: a weekend night slot with 593
\* events, and peak slots at the cap
C13_Witness ==
    /\ logs.pc = "slot_cap" /\ logs.sample_multiplier = 38
    /\ logs.slot_index = SlotCount
    /\ 593 \in logs.off_counts /\ 600 \in logs.peak_counts

\* C14: with an empty customer pool the evaluation goes on to the last slot
\* and the run completes with every event, each with a null customer_id.
C14_EmptyPoolAllNull ==
    /\ (logs.pc = "slots" /\ logs.cust_pool = <<>>) =>
          /\ logs.rows = logs.targets
          /\ logs.null_rows = logs.rows
          /\ ENABLED (SlotEvents \/ LogsPersistReplace \/ LogsPersistInsert)
    /\ (logs.pc = "done" /\ logs.cust_pool = <<>>) =>
          /\ logs.err = "none"
          /\ logs.rows = logs.targets /\ logs.rows >= 336 * 20
          /\ logs.null_rows = logs.rows
          /\ logs.overwrite =>
                (logTable.rows = logs.rows /\ logTable.null_ids = logTable.rows)

\* a completed run that asked for 30% of customers and sampled an empty pool
C14_Witness ==
    /\ logs.pc = "done" /\ logs.cust_pool = <<>>
    /\ logs.attach_customer_pct = 300 /\ logs.overwrite
    /\ logTable.rows >= 336 * 20 /\ logTable.null_ids = logTable.rows

\* C15: no run with attach_customer_pct > 0 whose customer pool is empty
\* completes without an error and with a null customer_id in every event.
C15_NoSilentAllNull ==
    ~ /\ logs.pc = "done" /\ logs.err = "none"
      /\ attach_pct(logs.attach_customer_pct) > 0
      /\ logs.cust_pool = <<>>
      /\ logs.rows > 0 /\ logs.null_rows = logs.rows

\* C23: with a reference sample of M >= 1 rows, base row i is joined to
\* exactly one sample row, the one numbered (i mod M) + 1; a TRIPLE or EMAIL
\* row has that row's email and a TRIPLE or PHONE row that row's phone,
\* in tmp_base and in the rows tmp_final takes from it.
C23_BorrowedFromPartner ==
    (tmp_base.exists /\ Len(tmp_source.rows) >= 1) =>
        LET src == tmp_source.rows
            M   == Len(src)
            rws == tmp_base.rows
            partners(i) == {j \in 1..M : src[j].SRC_RN = (i % M) + 1}
        IN  /\ Len(rws) = params.base_count
            /\ \A i \in 1..Len(rws) :
                  /\ rws[i].customer_id = customer_id(i)
                  /\ Cardinality(partners(i)) = 1
                  /\ \A j \in partners(i) :
                        /\ rws[i].overlap_type \in {"TRIPLE", "EMAIL"} =>
                              rws[i].email = src[j].SRC_EMAIL
                        /\ rws[i].overlap_type \in {"TRIPLE", "PHONE"} =>
                              rws[i].phone = src[j].SRC_PHONE
            /\ tmp_final.exists =>
                  SubSeq(tmp_final.rows, 1, Len(rws)) = rws

\* a run over a sample of two rows, smaller than its base: the PHONE row has
\* the phone of its partner and a TRIPLE or EMAIL row an email
C23_Witness ==
    /\ pc = "done"
    /\ Len(tmp_source.rows) = 2 /\ params.base_count > 2
    /\ \E i \in 1..Len(tmp_final.rows) :
          /\ tmp_final.rows[i].overlap_type = "PHONE"
          /\ ~IsNull(tmp_final.rows[i].phone)
    /\ \E i \in 1..Len(tmp_final.rows) :
          /\ tmp_final.rows[i].overlap_type = "EMAIL"
          /\ i > 2 /\ ~IsNull(tmp_final.rows[i].email)

\* C24: a DUPLICATE record has the first_name, last_name, gender, profession,
\* date_joined and subscription_level of its origin; its email is the
\* origin's or the origin's with one digit put before the '@'; its phone is
\* the origin's or differs from it in the last character only, a digit; a
\* field null in the origin is null in the duplicate.
C24_DuplicateCopiesOrigin ==
    pc \in {"persist", "insert", "done"} =>
        LET rws    == tmp_final.rows
            digits == {DigitChars[k] : k \in 1..Len(DigitChars)}
            dups   == {i \in 1..Len(rws) : rws[i].overlap_type = "DUPLICATE"}
            origins(i) ==
                {j \in 1..Len(rws) :
                    /\ rws[j].overlap_type # "DUPLICATE"
                    /\ rws[j].customer_id \o <<"_", "D", "U", "P">>
                         = rws[i].customer_id}
            DigitBeforeAt(e, o) ==
                /\ ~IsNull(o) /\ Len(e) = Len(o) + 1
                /\ \E k \in 1..Len(o), d \in digits :
                      /\ o[k] = "@"
                      /\ e = SubSeq(o, 1, k - 1) \o <<d>> \o SubSeq(o, k, Len(o))
            LastDigitChanged(p, o) ==
                /\ ~IsNull(o) /\ Len(p) = Len(o)
                /\ SubSeq(p, 1, Len(p) - 1) = SubSeq(o, 1, Len(o) - 1)
                /\ p[Len(p)] \in digits
        IN  \A i \in dups :
              /\ origins(i) # {}
              /\ \A j \in origins(i) :
                    LET d == rws[i]
                        o == rws[j]
                    IN  /\ d.first_name = o.first_name
                        /\ d.last_name = o.last_name
                        /\ d.gender = o.gender
                        /\ d.profession = o.profession
                        /\ d.date_joined = o.date_joined
                        /\ d.subscription_level = o.subscription_level
                        /\ d.email = o.email \/ DigitBeforeAt(d.email, o.email)
                        /\ d.phone = o.phone \/ LastDigitChanged(d.phone, o.phone)
                        /\ IsNull(o.email) => IsNull(d.email)
                        /\ IsNull(o.phone) => IsNull(d.phone)

\* a run with a duplicate whose email and phone are both mutated and a
\* duplicate of an origin without email
C24_Witness ==
    /\ pc = "done"
    /\ \E i, j \in 1..Len(tmp_final.rows) :
          /\ tmp_final.rows[i].customer_id
                = tmp_final.rows[j].customer_id \o <<"_", "D", "U", "P">>
          /\ tmp_final.rows[i].email # tmp_final.rows[j].email
          /\ tmp_final.rows[i].phone # tmp_final.rows[j].phone
    /\ \E i \in 1..Len(tmp_final.rows) :
          /\ tmp_final.rows[i].overlap_type = "DUPLICATE"
          /\ IsNull(tmp_final.rows[i].email)

\* C25: with a non-empty customer pool every event is joined to exactly one
\* pool row; the rows of the events with attach_flag = 1 carry a customer_id
\* of the pool, which is one of the customer table, and the other rows a
\* null customer_id.
C25_FlaggedGetPoolMember ==
    (logs.pc \in {"slots", "done"} /\ logs.cust_pool # <<>>) =>
        /\ logs.rows = logs.targets
        /\ logs.unmatched = 0
        /\ logs.rows - logs.null_rows = logs.flagged
        /\ logs.ids \subseteq IdsOf(logs.cust_pool)
        /\ IdsOf(logs.cust_pool) \subseteq IdsOf(crmTable.rows)
        /\ NULL \notin logs.ids
        /\ logs.flagged > 0 => logs.ids # {}

\* a completed run over a pool of two customers in which some events were
\* flagged and some were not, and both customers were attached
C25_Witness ==
    /\ logs.pc = "done" /\ Len(logs.cust_pool) = 2
    /\ logs.flagged > 0 /\ logs.null_rows > 0
    /\ logs.ids = IdsOf(logs.cust_pool)

\* C27: after the select of a simplified run read a non-empty customer map,
\* every row of an event that passed the attachment gate has a customer_id.
C27_GatedEventsAttached ==
    (simple.pc \in {"drop", "done"} /\ simple.map_rows >= 1) =>
        \A i \in 1..Len(simple.batch) :
            simple.batch[i].should_attach_customer = 1 =>
                ~IsNull(simple.batch[i].customer_id)

\* C28: once a high-volume or simplified run has ended, with or without an
\* error, the customer map it created does not exist.
C28_CustomerMapDropped ==
    /\ \A p \in Procs :
          hv[p].pc \in {"done", "failed"} =>
              ~(temp_customer_map.exists /\ temp_customer_map.built_by = p)
    /\ (simple.pc \in {"done", "failed"} /\ simple.made_map) =>
          ~simple_customer_map.exists

\* C26: in the rows an event pipeline produces, slot_start_time is the start
\* of the half hour that holds event_time, and two rows with the same
\* slot_start_time have the same programme_id.
C26_HalfHourSlots ==
    LET InSlot(r) ==
            /\ r.slot_start_time % 1800 = 0
            /\ r.slot_start_time <= r.event_time
            /\ r.event_time < r.slot_start_time + 1800
        Holds(rws) ==
            /\ \A i \in 1..Len(rws) : InSlot(rws[i])
            /\ \A i, j \in 1..Len(rws) :
                  rws[i].slot_start_time = rws[j].slot_start_time =>
                      rws[i].programme_id = rws[j].programme_id
    IN  /\ Holds(simple.batch)
        /\ \A p \in Procs : Holds(hv[p].batch)

\* C21: a high-volume run in overwrite mode that ended with an error has
\* left the output table as it found it.
C21_FailedRunKeepsTable ==
    \A p \in Procs :
        (hv[p].pc = "failed" /\ hv[p].overwrite) => hvTable = hv[p].before

\* C22: no step of a run of an event synthesizer, in either mode, completed
\* or failed, changes the customer table.
C22_CustomersOnlyRead ==
    [][crmTable' = crmTable]_vars

\* an append run of the simplified generator that attached customers has
\* completed over the customer table of two records
C22_Witness ==
    /\ simple.pc = "done" /\ ~simple.overwrite
    /\ logTable.rows > logTable.null_ids
    /\ crmTable = TableOf(HvCustomers)

=============================================================================
